---------------------------- MODULE Spec2Model ----------------------------
(***************************************************************************)
(* Model of rclone-filter-editor (main.go, revision with FilterRule).      *)
(*                                                                         *)
(* Strings are sequences of one-character strings, so that prefix, suffix, *)
(* split and the glob matcher are computed character by character as the   *)
(* Go code computes them.  Go maps are functions; an iteration over a map  *)
(* ("for k, v := range m") visits the keys in an order the runtime picks,  *)
(* so every operator that ranges over a map takes the visiting order as a  *)
(* parameter and the actions choose it nondeterministically.               *)
(***************************************************************************)
EXTENDS Integers, Sequences, FiniteSets, TLC

(***************************************************************************)
(* FilterState                                                             *)
(***************************************************************************)
FilterNone == 0

FilterInclude == 1

FilterExclude == 2

\* The sort modes of the tree view.
SortByName == 0

SortBySize == 1

SortByFileCount == 2

SortByLastModified == 3

FilterState == {FilterNone, FilterInclude, FilterExclude}

FilterRule(pattern, state) == [Pattern |-> pattern, State |-> state]

(***************************************************************************)
(* package strings                                                         *)
(***************************************************************************)
HasPrefix(s, p) == Len(p) <= Len(s) /\ SubSeq(s, 1, Len(p)) = p

HasSuffix(s, p) == Len(p) <= Len(s) /\ SubSeq(s, Len(s) - Len(p) + 1, Len(s)) = p

TrimPrefix(s, p) == IF HasPrefix(s, p) THEN SubSeq(s, Len(p) + 1, Len(s)) ELSE s

TrimSuffix(s, p) == IF HasSuffix(s, p) THEN SubSeq(s, 1, Len(s) - Len(p)) ELSE s

Contains(s, sub) ==
    \E i \in 1..(Len(s) - Len(sub) + 1) : SubSeq(s, i, i + Len(sub) - 1) = sub

RECURSIVE Split(_, _)
Split(s, sep) ==
    IF \A i \in 1..Len(s) : s[i] # sep
    THEN <<s>>
    ELSE LET i == CHOOSE k \in 1..Len(s) :
                      s[k] = sep /\ \A j \in 1..(k - 1) : s[j] # sep
         IN  <<SubSeq(s, 1, i - 1)>> \o Split(SubSeq(s, i + 1, Len(s)), sep)

Slash == <<"/">>

SlashStarStar == <<"/", "*", "*">>

(***************************************************************************)
(* rclonePatternToRegex: the regular expression is a sequence of tokens,   *)
(* one per fragment the Go code writes into the strings.Builder.           *)
(*   lit    c          the character c (escaped when the code escapes it)  *)
(*   star              [^/]*                                               *)
(*   one               [^/]                                                *)
(*   any               .*                                                  *)
(*   dirs              (?:.* /)?                                           *)
(*   class  c          [c], copied verbatim, c the characters inside       *)
(*   alt    alts       (?:a1|a2|...), each ai a token sequence             *)
(***************************************************************************)
Tok(k, c, alts) == [k |-> k, c |-> c, alts |-> alts]

RECURSIVE ScanBrace(_, _, _)
\* The brace loop: j advances until braceLevel is 0 or the pattern ends.
\* Result: the position after the closing brace, 0 when there is none.
ScanBrace(pattern, j, braceLevel) ==
    IF braceLevel = 0 THEN j
    ELSE IF j > Len(pattern) THEN 0
    ELSE ScanBrace(pattern, j + 1,
                   IF pattern[j] = "{" THEN braceLevel + 1
                   ELSE IF pattern[j] = "}" THEN braceLevel - 1
                   ELSE braceLevel)

RegexSpecial == {".", "^", "$", "+", "(", ")", "|", "\\"}

RECURSIVE rclonePatternToRegex(_)
rclonePatternToRegex(pattern) ==
    IF pattern = <<>> THEN <<>>
    ELSE
      LET n == Len(pattern)
          c == pattern[1]
          after(k) == rclonePatternToRegex(SubSeq(pattern, k + 1, n))
      IN
      CASE c = "*" ->
             IF n >= 2 /\ pattern[2] = "*"
             THEN IF n >= 3 /\ pattern[3] = "/"
                  THEN <<Tok("dirs", "", <<>>)>> \o after(3)
                  ELSE <<Tok("any", "", <<>>)>> \o after(2)
             ELSE <<Tok("star", "", <<>>)>> \o after(1)
        [] c = "?" -> <<Tok("one", "", <<>>)>> \o after(1)
        [] c = "[" ->
             IF \E j \in 2..n : pattern[j] = "]"
             THEN LET j == CHOOSE k \in 2..n :
                               pattern[k] = "]" /\ \A l \in 2..(k - 1) : pattern[l] # "]"
                  IN  <<Tok("class", SubSeq(pattern, 2, j - 1), <<>>)>> \o after(j)
             ELSE <<Tok("lit", "[", <<>>)>> \o after(1)
        [] c = "{" ->
             LET j == ScanBrace(pattern, 2, 1)
             IN  IF j # 0
                 THEN LET alternatives == SubSeq(pattern, 2, j - 2)
                          parts == Split(alternatives, ",")
                      IN  <<Tok("alt", "",
                                [idx \in 1..Len(parts) |-> rclonePatternToRegex(parts[idx])])>>
                          \o after(j - 1)
                 ELSE <<Tok("lit", "{", <<>>)>> \o after(1)
        [] c \in RegexSpecial -> <<Tok("lit", c, <<>>)>> \o after(1)
        [] OTHER -> <<Tok("lit", c, <<>>)>> \o after(1)

(***************************************************************************)
(* regexp.Compile and Regexp.MatchString on "^" + regex + "$".            *)
(* A class matches one character: a member of its content, or, when the    *)
(* content starts with "^", a non-member.  An empty class does not compile.*)
(***************************************************************************)
RECURSIVE Compiles(_)
Compiles(regex) ==
    \A i \in 1..Len(regex) :
        /\ regex[i].k = "class" => regex[i].c # <<>> /\ regex[i].c # <<"^">>
        /\ regex[i].k = "alt" =>
               \A a \in 1..Len(regex[i].alts) : Compiles(regex[i].alts[a])

ClassAccepts(content, ch) ==
    IF content[1] = "^"
    THEN \A i \in 2..Len(content) : content[i] # ch
    ELSE \E i \in 1..Len(content) : content[i] = ch

RECURSIVE MatchString(_, _)
MatchString(regex, s) ==
    IF regex = <<>> THEN s = <<>>
    ELSE
      LET t == Head(regex)
          rest == Tail(regex)
          from(k) == SubSeq(s, k + 1, Len(s))
      IN
      CASE t.k = "lit"   -> s # <<>> /\ s[1] = t.c /\ MatchString(rest, from(1))
        [] t.k = "one"   -> s # <<>> /\ s[1] # "/" /\ MatchString(rest, from(1))
        [] t.k = "class" -> s # <<>> /\ ClassAccepts(t.c, s[1])
                                     /\ MatchString(rest, from(1))
        [] t.k = "star"  -> \E k \in 0..Len(s) :
                                /\ \A i \in 1..k : s[i] # "/"
                                /\ MatchString(rest, from(k))
        [] t.k = "any"   -> \E k \in 0..Len(s) : MatchString(rest, from(k))
        [] t.k = "dirs"  -> \/ MatchString(rest, s)
                            \/ \E k \in 1..Len(s) :
                                   s[k] = "/" /\ MatchString(rest, from(k))
        [] t.k = "alt"   -> \E a \in 1..Len(t.alts) :
                                MatchString(t.alts[a] \o rest, s)

matchesRclonePattern_PathUntrimmed(pattern, path) ==
    \* As matchesRclonePattern, with the path taken as it comes.
    IF pattern = <<>> THEN FALSE
    ELSE
      LET cleanPattern == TrimPrefix(pattern, Slash)
          dirPattern == TrimSuffix(cleanPattern, SlashStarStar)
      IN
      IF /\ HasSuffix(cleanPattern, SlashStarStar)
         /\ \/ path = dirPattern
            \/ HasPrefix(path, dirPattern \o Slash)
      THEN TRUE
      ELSE LET regex == rclonePatternToRegex(cleanPattern)
           IN  IF ~Compiles(regex)
               THEN cleanPattern = path
               ELSE MatchString(regex, path)

matchesRclonePattern(pattern, path) ==
    IF pattern = <<>> THEN FALSE
    ELSE
      LET cleanPattern == TrimPrefix(pattern, Slash)
          cleanPath == TrimPrefix(path, Slash)
          dirPattern == TrimSuffix(cleanPattern, SlashStarStar)
      IN
      IF /\ HasSuffix(cleanPattern, SlashStarStar)
         /\ \/ cleanPath = dirPattern
            \/ HasPrefix(cleanPath, dirPattern \o Slash)
      THEN TRUE
      ELSE LET regex == rclonePatternToRegex(cleanPattern)
           IN  IF ~Compiles(regex)
               THEN cleanPattern = cleanPath
               ELSE MatchString(regex, cleanPath)

(***************************************************************************)
(* Go maps.  A map is a function from its keys; Keys(m) is its key set and *)
(* Orders(S) the orders in which "range" may visit the keys S.             *)
(***************************************************************************)
EmptyMap == <<>>

Keys(m) == DOMAIN m

MapSet(m, k, v) == [x \in Keys(m) \cup {k} |-> IF x = k THEN v ELSE m[x]]

MapDelete(m, k) == [x \in Keys(m) \ {k} |-> m[x]]

RECURSIVE Orders(_)
Orders(S) ==
    IF S = {} THEN {<<>>}
    ELSE UNION {{<<x>> \o o : o \in Orders(S \ {x})} : x \in S}

(***************************************************************************)
(* getEffectiveFilter: first match wins over the ordered rules.            *)
(***************************************************************************)
RECURSIVE getEffectiveFilter_LastMatch(_, _)
\* As getEffectiveFilter without the break: the last matching rule wins.
getEffectiveFilter_LastMatch(path, filterRules) ==
    IF filterRules = <<>> THEN FilterNone
    ELSE LET rule == filterRules[Len(filterRules)]
         IN  IF rule.Pattern = path \/ matchesRclonePattern(rule.Pattern, path)
             THEN rule.State
             ELSE getEffectiveFilter_LastMatch(path,
                      SubSeq(filterRules, 1, Len(filterRules) - 1))

RECURSIVE getEffectiveFilter(_, _)
getEffectiveFilter(path, filterRules) ==
    IF filterRules = <<>> THEN FilterNone
    ELSE LET rule == Head(filterRules)
         IN  IF rule.Pattern = path \/ matchesRclonePattern(rule.Pattern, path)
             THEN rule.State
             ELSE getEffectiveFilter(path, Tail(filterRules))

(***************************************************************************)
(* Model.getEffectiveFilterWithMap.  order is the order in which the range *)
(* over m.filterMap visits the keys.                                       *)
(***************************************************************************)
NoMatch == [foundMatch |-> FALSE, bestMatch |-> <<>>, bestState |-> FilterNone]

\* The condition of the first loop, "pattern == path || matchesRclonePattern(
\* pattern, path)", for every key of the map.
Accepted(path, fmap) ==
    [pattern \in Keys(fmap) |-> pattern = path \/ matchesRclonePattern(pattern, path)]

RECURSIVE BestOverlayMatch(_, _, _, _, _)
\* The first loop: best is (foundMatch, bestMatch, bestState) so far.
BestOverlayMatch(accepted, fmap, order, i, best) ==
    IF i > Len(order) THEN best
    ELSE LET pattern == order[i]
         IN  IF /\ accepted[pattern]
                /\ ~best.foundMatch \/ Len(pattern) > Len(best.bestMatch)
             THEN BestOverlayMatch(accepted, fmap, order, i + 1,
                      [foundMatch |-> TRUE, bestMatch |-> pattern,
                       bestState |-> fmap[pattern]])
             ELSE BestOverlayMatch(accepted, fmap, order, i + 1, best)

RECURSIVE FallbackRules(_, _, _)
\* The second loop: first matching rule whose pattern is not a map key.
FallbackRules(path, filterRules, fmap) ==
    IF filterRules = <<>> THEN FilterNone
    ELSE LET rule == Head(filterRules)
         IN  IF /\ rule.Pattern = path \/ matchesRclonePattern(rule.Pattern, path)
                /\ rule.Pattern \notin Keys(fmap)
             THEN rule.State
             ELSE FallbackRules(path, Tail(filterRules), fmap)

\* In the two definitions below accepted is Accepted(path, fmap) and
\* fallback is FallbackRules(path, filterRules, fmap): the values the two
\* loops compute, which do not depend on the visiting order.

ResolveWith_FirstVisited(accepted, fallback, fmap, order) ==
    \* As ResolveWith without the length comparison: the first matching key
    \* the range visits wins.
    LET hits == {i \in 1..Len(order) : accepted[order[i]]}
    IN  IF hits # {}
        THEN fmap[order[CHOOSE i \in hits : \A j \in hits : i <= j]]
        ELSE fallback

\* The body of getEffectiveFilterWithMap.
ResolveWith(accepted, fallback, fmap, order) ==
    LET best == BestOverlayMatch(accepted, fmap, order, 1, NoMatch)
    IN  IF best.foundMatch THEN best.bestState ELSE fallback

getEffectiveFilterWithMap_NoFallback(path, filterRules, fmap, order) ==
    \* As getEffectiveFilterWithMap without the second loop.
    ResolveWith(Accepted(path, fmap), FilterNone, fmap, order)

getEffectiveFilterWithMap(path, filterRules, fmap, order) ==
    ResolveWith(Accepted(path, fmap), FallbackRules(path, filterRules, fmap), fmap, order)

(***************************************************************************)
(* The rule file: a sequence of lines, each a string.                      *)
(***************************************************************************)
Whitespace == {" ", "\t", "\r"}

RECURSIVE TrimSpace(_)
TrimSpace(s) ==
    IF s = <<>> THEN s
    ELSE IF s[1] \in Whitespace THEN TrimSpace(Tail(s))
    ELSE IF s[Len(s)] \in Whitespace THEN TrimSpace(SubSeq(s, 1, Len(s) - 1))
    ELSE s

PlusSpace == <<"+", " ">>

MinusSpace == <<"-", " ">>

RECURSIVE loadFilterFile(_)
\* The scanner loop over the lines of an opened file; the result is the pair
\* (filterRules, filterMap).
loadFilterFile(lines) ==
    IF lines = <<>> THEN [filterRules |-> <<>>, filterMap |-> EmptyMap]
    ELSE
      LET before == loadFilterFile(SubSeq(lines, 1, Len(lines) - 1))
          line == TrimSpace(lines[Len(lines)])
      IN
      IF line = <<>> \/ HasPrefix(line, <<"#">>) THEN before
      ELSE IF HasPrefix(line, PlusSpace)
      THEN LET path == TrimPrefix(line, PlusSpace)
           IN  [filterRules |-> Append(before.filterRules, FilterRule(path, FilterInclude)),
                filterMap |-> MapSet(before.filterMap, path, FilterInclude)]
      ELSE IF HasPrefix(line, MinusSpace)
      THEN LET path == TrimPrefix(line, MinusSpace)
           IN  [filterRules |-> Append(before.filterRules, FilterRule(path, FilterExclude)),
                filterMap |-> MapSet(before.filterMap, path, FilterExclude)]
      ELSE before

getPatternDirectory(pattern0) ==
    LET pattern == TrimPrefix(pattern0, Slash)
    IN  IF HasSuffix(pattern, SlashStarStar)
        THEN TrimSuffix(pattern, SlashStarStar)
        ELSE Split(pattern, "/")[1]

shouldInsertBefore(newPattern, existingPattern) ==
    IF existingPattern = <<"*">> THEN TRUE
    ELSE
      LET newDir == getPatternDirectory(newPattern)
          existingDir == getPatternDirectory(existingPattern)
      IN
      IF newDir = existingDir
      THEN \/ Len(newPattern) > Len(existingPattern)
           \/ /\ Contains(newPattern, Slash)
              /\ ~Contains(existingPattern, SlashStarStar)
      ELSE existingDir # <<>> /\ HasPrefix(newDir, existingDir)

\* fmt.Fprintf(writer, "+ %s\n", p) / "- %s\n": the lines one rule contributes.
RuleLines(state, pattern) ==
    IF state = FilterInclude THEN <<PlusSpace \o pattern>>
    ELSE IF state = FilterExclude THEN <<MinusSpace \o pattern>>
    ELSE <<>>

\* newRules: the keys of filterMap that are the pattern of no original rule.
NewRules(filterRules, fmap) ==
    {path \in Keys(fmap) : \A i \in 1..Len(filterRules) : filterRules[i].Pattern # path}

RECURSIVE InsertBefore(_, _, _, _, _)
\* The "for newPath, newState := range newRules" loop inside the loop over
\* filterRules, visiting order[j..]: writes the rules not yet written that
\* shouldInsertBefore places before nextPattern.
InsertBefore(fmap, order, j, nextPattern, acc) ==
    IF j > Len(order) THEN acc
    ELSE LET newPath == order[j]
         IN  IF newPath \notin acc.writtenPaths /\ shouldInsertBefore(newPath, nextPattern)
             THEN InsertBefore(fmap, order, j + 1, nextPattern,
                      [out |-> acc.out \o RuleLines(fmap[newPath], newPath),
                       writtenPaths |-> acc.writtenPaths \cup {newPath}])
             ELSE InsertBefore(fmap, order, j + 1, nextPattern, acc)

RECURSIVE WriteRemaining(_, _, _, _)
\* The last "for path, state := range newRules" loop, visiting order[j..]:
\* the lines of the rules not yet written.
WriteRemaining(fmap, order, j, acc) ==
    IF j > Len(order) THEN acc.out
    ELSE LET path == order[j]
         IN  WriteRemaining(fmap, order, j + 1,
                 IF path \notin acc.writtenPaths
                 THEN [acc EXCEPT !.out = @ \o RuleLines(fmap[path], path)]
                 ELSE acc)

WriteOriginal_KeepRemoved(rule, fmap, acc) ==
    \* As WriteOriginal without the "exists" test: a rule whose pattern left
    \* the map is written with the state it was loaded with.
    [out |-> acc.out \o RuleLines(IF rule.Pattern \in Keys(fmap)
                                   THEN fmap[rule.Pattern] ELSE rule.State,
                                   rule.Pattern),
     writtenPaths |-> acc.writtenPaths \cup {rule.Pattern}]

\* "Write existing rule if it still exists in filterMap"
WriteOriginal(rule, fmap, acc) ==
    IF rule.Pattern \in Keys(fmap)
    THEN [out |-> acc.out \o RuleLines(fmap[rule.Pattern], rule.Pattern),
          writtenPaths |-> acc.writtenPaths \cup {rule.Pattern}]
    ELSE acc

RECURSIVE SaveLoop(_, _, _, _, _)
\* The loop over filterRules from index i on; acc is (out, writtenPaths).
SaveLoop(filterRules, fmap, order, i, acc) ==
    IF i > Len(filterRules) THEN acc
    ELSE
      LET acc1 == WriteOriginal(filterRules[i], fmap, acc)
          acc2 == IF i + 1 <= Len(filterRules)
                  THEN InsertBefore(fmap, order, 1, filterRules[i + 1].Pattern, acc1)
                  ELSE acc1
      IN  SaveLoop(filterRules, fmap, order, i + 1, acc2)

\* saveFilterFile: the lines flushed to the created file.  order is the order
\* in which the ranges over newRules visit its keys.  Every range writes keys
\* no other range writes, and which keys it writes does not depend on any
\* order, so one order for all the ranges yields every output the ranges can
\* produce with an order each.
saveFilterFile(filterRules, fmap, order) ==
    WriteRemaining(fmap, order, 1,
        SaveLoop(filterRules, fmap, order, 1, [out |-> <<>>, writtenPaths |-> {}]))

(***************************************************************************)
(* State.                                                                  *)
(***************************************************************************)
VARIABLES
    fs,            \* the directories of the file system: what os.ReadDir returns
    disk,          \* the rule file: its lines
    filterRules,   \* Model.filterRules
    filterMap,     \* Model.filterMap: a reference to a map object of heap
    heap,          \* the map objects made so far (make(map[string]FilterState))
    root,          \* Model.root: the tree (numbered by the scan that made it) it points to
    loading,       \* Model.loading
    ctx,           \* Model.ctx: the context the current Model value holds
    cancelled,     \* the contexts whose cancel function has been called
    nodes,         \* nodes[g][path]: the FileNode at path in tree g
    visibleNodes,  \* Model.visibleNodes: paths of nodes of tree root
    cursor,        \* Model.cursor
    sortMode,      \* Model.sortMode
    scans,         \* scans[g]: the goroutine that builds tree g
    inbox,         \* messages handed to program.Send, not yet given to Update
    edits,         \* number of toggle, invert and reset keys handled
    query,         \* the last resolver call: its arguments and results
    saved          \* the last save: its arguments and the lines it wrote

appVars == <<root, loading, ctx, cancelled, nodes, visibleNodes, cursor, sortMode, scans,
             inbox, edits>>

vars == <<fs, disk, filterRules, filterMap, heap, root, loading, ctx, cancelled, nodes,
          visibleNodes, cursor, sortMode, scans, inbox, edits, query, saved>>

\* No program running: the state of the application part while a function
\* is exercised on its own.
NoProgram ==
    /\ fs = <<>>
    /\ root = 0
    /\ loading = FALSE
    /\ ctx = 0
    /\ cancelled = {}
    /\ nodes = <<>>
    /\ visibleNodes = <<>>
    /\ cursor = 0
    /\ sortMode = SortByName
    /\ scans = <<>>
    /\ inbox = <<>>
    /\ edits = 0

\* The map m.filterMap refers to.
FM == heap[filterMap]

NoQuery == [path |-> <<>>, order |-> <<>>, ordered |-> FilterNone, withMap |-> FilterNone,
            asked |-> FALSE]

NoSave == [done |-> FALSE, filterRules |-> <<>>, fmap |-> EmptyMap, lines |-> <<>>]

\* All sequences over S of length at most n.
SeqsUpTo(S, n) == UNION {[1..k -> S] : k \in 0..n}

\* All maps from at most n keys of P to Include or Exclude.
MapsUpTo(P, n) ==
    UNION {[K -> {FilterInclude, FilterExclude}] : K \in {X \in SUBSET P : Cardinality(X) <= n}}

(***************************************************************************)
(* The resolvers on their own: any rule list and any map over a pool of    *)
(* patterns, resolved for any path of a pool.                              *)
(***************************************************************************)
MaxRules == 2

MaxOverlay == 2

PStarLog == <<"*", ".", "l", "o", "g">>

PKeepLog == <<"k", "e", "e", "p", ".", "l", "o", "g">>

PImportantLog == <<"i", "m", "p", "o", "r", "t", "a", "n", "t", ".", "l", "o", "g">>

PDir1 == <<"d", "i", "r", "1", "/", "*", "*">>

PStar == <<"*">>

ResolvePatterns == {PStarLog, PKeepLog, PImportantLog}

ResolvePaths ==
    { <<"/", "k", "e", "e", "p", ".", "l", "o", "g">>,
      <<"/", "i", "m", "p", "o", "r", "t", "a", "n", "t", ".", "l", "o", "g">>,
      <<"/", "d", "i", "r", "1", "/", "k", "e", "e", "p", ".", "l", "o", "g">> }

ResolveRules ==
    {FilterRule(p, st) : p \in ResolvePatterns, st \in {FilterInclude, FilterExclude}}

InitResolve ==
    /\ disk = <<>>
    /\ filterRules \in SeqsUpTo(ResolveRules, MaxRules)
    /\ heap \in {<<m>> : m \in MapsUpTo(ResolvePatterns, MaxOverlay)}
    /\ filterMap = 1
    /\ query = NoQuery
    /\ saved = NoSave
    /\ NoProgram

\* One call of each resolver on the same path.
Resolve ==
    /\ ~query.asked
    /\ \E path \in ResolvePaths, order \in Orders(Keys(FM)) :
           query' = [path |-> path, order |-> order, asked |-> TRUE,
                     ordered |-> getEffectiveFilter(path, filterRules),
                     withMap |-> getEffectiveFilterWithMap(path, filterRules, FM, order)]
    /\ UNCHANGED <<fs, disk, filterRules, filterMap, heap, saved, appVars>>

NextResolve == Resolve

SpecResolve == InitResolve /\ [][NextResolve]_vars

(***************************************************************************)
(* Properties of the resolvers.                                            *)
(***************************************************************************)
Accepts(pattern, path) == pattern = path \/ matchesRclonePattern(pattern, path)

\* The indexes of the rules of rs that equal or match path.
Hits(path, rs) == {i \in 1..Len(rs) : Accepts(rs[i].Pattern, path)}

Least(S) == CHOOSE i \in S : \A j \in S : i <= j

\* First-match-wins, stated on indexes.
FirstHitState(path, rs) ==
    IF Hits(path, rs) = {} THEN FilterNone ELSE rs[Least(Hits(path, rs))].State

\* The keys of fmap that equal or match path.
OverlayHits(path, fmap) == {k \in Keys(fmap) : Accepts(k, path)}

\* C1: getEffectiveFilter returns the state of the first rule, in list order,
\* that equals or matches the path, Unset when none does; the rules
\* [("*.log",Exclude),("keep.log",Include)] resolve /keep.log to Exclude.
C1_OrderedFirstMatch ==
    query.asked =>
        /\ query.ordered = FirstHitState(query.path, filterRules)
        /\ ( /\ filterRules = <<FilterRule(PStarLog, FilterExclude),
                                 FilterRule(PKeepLog, FilterInclude)>>
             /\ query.path = <<"/", "k", "e", "e", "p", ".", "l", "o", "g">> )
           => query.ordered = FilterExclude

C1_Witness ==
    /\ query.asked
    /\ filterRules = <<FilterRule(PStarLog, FilterExclude), FilterRule(PKeepLog, FilterInclude)>>
    /\ query.path = <<"/", "k", "e", "e", "p", ".", "l", "o", "g">>
    /\ query.ordered = FilterExclude

\* C2: when some map key equals or matches the path, getEffectiveFilterWithMap
\* returns the state of a matching key of greatest length, in whatever order
\* the keys are visited; {"*.log":Exclude, "important.log":Include} resolves
\* /important.log to Include.
C2_LongestOverlayMatch ==
    (query.asked /\ OverlayHits(query.path, FM) # {}) =>
        /\ \E k \in OverlayHits(query.path, FM) :
               /\ \A j \in OverlayHits(query.path, FM) : Len(j) <= Len(k)
               /\ query.withMap = FM[k]
        /\ ( /\ FM = (PStarLog :> FilterExclude) @@ (PImportantLog :> FilterInclude)
             /\ query.path = <<"/", "i", "m", "p", "o", "r", "t", "a", "n", "t", ".", "l", "o", "g">> )
           => query.withMap = FilterInclude

C2_Witness ==
    /\ query.asked
    /\ FM = (PStarLog :> FilterExclude) @@ (PImportantLog :> FilterInclude)
    /\ query.path = <<"/", "i", "m", "p", "o", "r", "t", "a", "n", "t", ".", "l", "o", "g">>
    /\ query.order = <<PStarLog, PImportantLog>>
    /\ query.withMap = FilterInclude

\* The rules of rs whose pattern is not a key of fmap, in order.
RulesNotIn(rs, fmap) ==
    LET NotKey(r) == r.Pattern \notin Keys(fmap)
    IN  SelectSeq(rs, NotKey)

\* C3: when no map key equals or matches the path, getEffectiveFilterWithMap
\* returns the first-match result over the rules whose pattern is not a map
\* key (Unset when none of them matches); with an empty map it equals the
\* ordered policy.
C3_FallbackToRules ==
    (query.asked /\ OverlayHits(query.path, FM) = {}) =>
        /\ query.withMap = FirstHitState(query.path, RulesNotIn(filterRules, FM))
        /\ Keys(FM) = {} => query.withMap = query.ordered

C3_Witness ==
    /\ query.asked
    /\ OverlayHits(query.path, FM) = {}
    /\ Keys(FM) # {}
    /\ \E i \in 1..Len(filterRules) : filterRules[i].Pattern \in Keys(FM)
    /\ query.withMap # FilterNone

(***************************************************************************)
(* One call saveFilterFile(filename, filterRules, filterMap): the created   *)
(* file receives the lines; saved records the call.                        *)
(***************************************************************************)
Save ==
    /\ \E order \in Orders(NewRules(filterRules, FM)) :
           LET lines == saveFilterFile(filterRules, FM, order)
           IN  /\ disk' = lines
               /\ saved' = [done |-> TRUE, filterRules |-> filterRules,
                            fmap |-> FM, lines |-> lines]
    /\ UNCHANGED <<fs, filterRules, filterMap, heap, query, appVars>>

(***************************************************************************)
(* The serializer on its own: any rule list and any map over a pool of     *)
(* patterns.                                                               *)
(***************************************************************************)
PDir1Sub3 == <<"d", "i", "r", "1", "/", "s", "u", "b", "3", "/", "*", "*">>

PTemp == <<"t", "e", "m", "p">>

SavePatterns == {PDir1, PDir1Sub3, PTemp, PStar}

SaveRules ==
    {FilterRule(p, st) : p \in SavePatterns, st \in {FilterInclude, FilterExclude}}

InitSave ==
    /\ disk = <<>>
    /\ filterRules \in SeqsUpTo(SaveRules, MaxRules)
    /\ heap \in {<<m>> : m \in MapsUpTo(SavePatterns, Cardinality(SavePatterns))}
    /\ filterMap = 1
    /\ query = NoQuery
    /\ saved = NoSave
    /\ NoProgram

NextSave == Save

SpecSave == InitSave /\ [][NextSave]_vars

(***************************************************************************)
(* Properties of the serializer.                                           *)
(***************************************************************************)
\* The pattern of a written line ("+ pattern" or "- pattern").
LinePattern(line) == SubSeq(line, 3, Len(line))

\* The position of the first line written for pattern, 0 when there is none.
PosOf(lines, pattern) ==
    LET at == {i \in 1..Len(lines) : LinePattern(lines[i]) = pattern}
    IN  IF at = {} THEN 0 ELSE Least(at)

\* d generalizes or equals e as a directory prefix: the same directory, or a
\* directory above it.
Generalizes(d, e) == d = e \/ HasPrefix(e, d \o Slash)

\* The original rules that remain (their pattern is still a map key) and whose
\* directory prefix equals or generalizes that of newPath.
Broader(newPath, rs, fmap) ==
    {i \in 1..Len(rs) :
        /\ rs[i].Pattern \in Keys(fmap)
        /\ Generalizes(getPatternDirectory(rs[i].Pattern), getPatternDirectory(newPath))}

\* C5: every new rule is written before the first remaining original rule
\* whose directory prefix equals or generalizes its own, wherever that rule
\* stands in the original list.
C5_NewRuleBeforeBroader ==
    saved.done =>
        \A newPath \in NewRules(saved.filterRules, saved.fmap) :
            LET broader == Broader(newPath, saved.filterRules, saved.fmap)
            IN  broader # {} =>
                    PosOf(saved.lines, newPath)
                        < PosOf(saved.lines, saved.filterRules[Least(broader)].Pattern)

\* The lines of the original rules that remain, in original order, each with
\* the map's current state.
OriginalLines(rs, fmap) ==
    LET Remains(r) == r.Pattern \in Keys(fmap)
        kept == SelectSeq(rs, Remains)
    IN  [i \in 1..Len(kept) |->
            (IF fmap[kept[i].Pattern] = FilterInclude THEN PlusSpace ELSE MinusSpace)
                \o kept[i].Pattern]

\* C6: the original rules are written in their original relative order, each
\* with the map's current state, and those whose pattern is no longer a key
\* are omitted.
C6_OriginalOrderKept ==
    saved.done =>
        LET IsOriginal(line) ==
                \E i \in 1..Len(saved.filterRules) :
                    saved.filterRules[i].Pattern = LinePattern(line)
        IN  SelectSeq(saved.lines, IsOriginal)
                = OriginalLines(saved.filterRules, saved.fmap)

C6_Witness ==
    /\ saved.done
    /\ Len(saved.filterRules) >= 2
    /\ saved.filterRules[1].Pattern # saved.filterRules[2].Pattern
    /\ saved.filterRules[1].Pattern \notin Keys(saved.fmap)
    /\ saved.filterRules[2].Pattern \in Keys(saved.fmap)
    /\ saved.fmap[saved.filterRules[2].Pattern] # saved.filterRules[2].State
    /\ NewRules(saved.filterRules, saved.fmap) # {}
    /\ Len(saved.lines) >= 2

\* C7: a new rule that no original rule generalizes is written after every
\* original rule but the trailing catch-all "*": when the rule list ends
\* with "*", the new rule is written before it.
C7_NewRuleBeforeCatchAll ==
    saved.done =>
        \A newPath \in NewRules(saved.filterRules, saved.fmap) :
            LET rs == saved.filterRules
                n == Len(rs)
                alone == \A i \in 1..n :
                             ~Generalizes(getPatternDirectory(rs[i].Pattern),
                                          getPatternDirectory(newPath))
            IN  (alone /\ n > 0 /\ rs[n].Pattern = PStar /\ PStar \in Keys(saved.fmap))
                    => \A k \in 1..Len(saved.lines) :
                           LinePattern(saved.lines[k]) = PStar
                               => PosOf(saved.lines, newPath) < k

\* C9: the lines a save writes are a function of the rule list and the map:
\* whatever order the ranges over the new rules take, the same lines come out,
\* the relative order of new rules written at one position included.
C9_SaveIsAFunction ==
    saved.done =>
        \A order \in Orders(NewRules(saved.filterRules, saved.fmap)) :
            saveFilterFile(saved.filterRules, saved.fmap, order) = saved.lines

(***************************************************************************)
(* The directories the program browses.  A listing holds the entries       *)
(* sorted by file name, as os.ReadDir returns them.                        *)
(***************************************************************************)
RootPath == <<"/", "r">>

DirEntry(name, isDir, size, modTime) ==
    [Name |-> name, IsDir |-> isDir, Size |-> size, ModTime |-> modTime]

PathA == <<"/", "r", "/", "a">>

PathAK == <<"/", "r", "/", "a", "/", "k">>

PathK == <<"/", "r", "/", "k">>

PathB == <<"/", "r", "/", "b">>

PathAC == <<"/", "r", "/", "a", "/", "c">>

\* What os.ReadDir returns: the entries, or an error.
Listing(err, entries) == [err |-> err, entries |-> entries]

\* A root with a directory a and a file k; a holds a file k.
SmallTree ==
    (RootPath :> Listing(FALSE, <<DirEntry(<<"a">>, TRUE, 0, 1),
                                  DirEntry(<<"k">>, FALSE, 2, 2)>>))
    @@ (PathA :> Listing(FALSE, <<DirEntry(<<"k">>, FALSE, 3, 3)>>))

TreePaths == {RootPath, PathA, PathAK, PathK}

\* os.ReadDir(path): a path that is not there fails like one that cannot be
\* read.
ReadDir(path) == IF path \in DOMAIN fs THEN fs[path] ELSE Listing(TRUE, <<>>)

\* filepath.Join(dir, name)
Join(dir, name) == dir \o Slash \o name

\* getFilterPath with globalRootPath = RootPath: "/" + filepath.Rel(root, path)
getFilterPath(path) ==
    LET rel == IF path = RootPath THEN <<".">> ELSE TrimPrefix(path, RootPath \o Slash)
    IN  Slash \o rel

(***************************************************************************)
(* FileNode and the operations on trees.  A tree is a function from the    *)
(* paths of its nodes to the nodes; Children lists the paths of a node's   *)
(* children in order.                                                      *)
(***************************************************************************)
FileNode(path, e, filter, expanded) ==
    [Name |-> e.Name, Path |-> path, IsDir |-> e.IsDir, Size |-> e.Size,
     ModTime |-> e.ModTime, Children |-> <<>>, Expanded |-> expanded,
     Filter |-> filter, TotalSize |-> 0, TotalFiles |-> 0, Loading |-> e.IsDir]

\* The root node main and refreshDirectory create.
RootNode(filter) ==
    FileNode(RootPath, DirEntry(<<"r">>, TRUE, 0, 0), filter, TRUE)

\* Every state a call of getEffectiveFilterWithMap may return, over the
\* orders in which its range may visit the map.  The loop skips the keys
\* that do not accept the path, so the orders of the accepting keys give
\* every result.
Resolutions(path, rules, fmap) ==
    LET accepted == Accepted(path, fmap)
        fallback == FallbackRules(path, rules, fmap)
    IN  {ResolveWith(accepted, fallback, fmap, o) :
            o \in Orders({k \in Keys(fmap) : accepted[k]})}

CharCode ==
    ("A" :> 65) @@ ("K" :> 75) @@ ("a" :> 97) @@ ("b" :> 98) @@ ("c" :> 99)
    @@ ("k" :> 107) @@ ("r" :> 114)

ToLower(str) ==
    [i \in 1..Len(str) |->
        IF str[i] = "A" THEN "a" ELSE IF str[i] = "K" THEN "k" ELSE str[i]]

RECURSIVE StringLess(_, _)
\* a < b on strings
StringLess(a, b) ==
    IF b = <<>> THEN FALSE
    ELSE IF a = <<>> THEN TRUE
    ELSE IF a[1] # b[1] THEN CharCode[a[1]] < CharCode[b[1]]
    ELSE StringLess(Tail(a), Tail(b))

\* The less function sortChildren hands to sort.Slice.
ChildLess(mode, x, y) ==
    IF x.IsDir # y.IsDir THEN x.IsDir
    ELSE CASE mode = SortByName -> StringLess(ToLower(x.Name), ToLower(y.Name))
           [] mode = SortBySize ->
                IF x.IsDir /\ y.IsDir THEN x.TotalSize > y.TotalSize ELSE x.Size > y.Size
           [] mode = SortByFileCount ->
                IF x.IsDir /\ y.IsDir THEN x.TotalFiles > y.TotalFiles
                ELSE StringLess(ToLower(x.Name), ToLower(y.Name))
           [] mode = SortByLastModified -> x.ModTime > y.ModTime
           [] OTHER -> StringLess(ToLower(x.Name), ToLower(y.Name))

\* sortChildren: sort.Slice is not stable, so every arrangement in which no
\* element is less than one before it is a possible result.
sortChildren(children, mode) ==
    {o \in Orders({children[i] : i \in 1..Len(children)}) :
        \A i, j \in 1..Len(o) : i < j => ~ChildLess(mode, o[j], o[i])}

RECURSIVE Flatten(_)
Flatten(seqs) == IF seqs = <<>> THEN <<>> ELSE Head(seqs) \o Flatten(Tail(seqs))

RECURSIVE addVisibleNodesRecursive(_, _)
\* The nodes appended to visibleNodes for the subtree at path.
addVisibleNodesRecursive(tree, path) ==
    <<path>> \o
    IF tree[path].IsDir /\ tree[path].Expanded
    THEN Flatten([i \in 1..Len(tree[path].Children) |->
                     addVisibleNodesRecursive(tree, tree[path].Children[i])])
    ELSE <<>>

updateVisibleNodes(tree) == addVisibleNodesRecursive(tree, RootPath)

RECURSIVE SumSeq(_)
SumSeq(ns) == IF ns = <<>> THEN 0 ELSE Head(ns) + SumSeq(Tail(ns))

RECURSIVE StatSize(_, _)
\* The first result of calculateStats(node)
StatSize(tree, path) ==
    IF ~tree[path].IsDir THEN tree[path].Size
    ELSE SumSeq([i \in 1..Len(tree[path].Children) |->
                    StatSize(tree, tree[path].Children[i])])

RECURSIVE StatFiles(_, _)
\* The second result of calculateStats(node)
StatFiles(tree, path) ==
    IF ~tree[path].IsDir THEN 1
    ELSE SumSeq([i \in 1..Len(tree[path].Children) |->
                    StatFiles(tree, tree[path].Children[i])])

calculateStats_Shallow(tree) ==
    \* As calculateStats without the recursion: every directory sums what its
    \* children hold, as scanSingleDirectory does.
    [path \in DOMAIN tree |->
        IF tree[path].IsDir
        THEN [tree[path] EXCEPT
                 !.TotalSize = SumSeq([i \in 1..Len(tree[path].Children) |->
                     IF tree[tree[path].Children[i]].IsDir
                     THEN tree[tree[path].Children[i]].TotalSize
                     ELSE tree[tree[path].Children[i]].Size]),
                 !.TotalFiles = SumSeq([i \in 1..Len(tree[path].Children) |->
                     IF tree[tree[path].Children[i]].IsDir
                     THEN tree[tree[path].Children[i]].TotalFiles
                     ELSE 1])]
        ELSE tree[path]]

\* The tree after calculateStats(root): every directory holds its totals.
calculateStats(tree) ==
    [path \in DOMAIN tree |->
        IF tree[path].IsDir
        THEN [tree[path] EXCEPT !.TotalSize = StatSize(tree, path),
                                !.TotalFiles = StatFiles(tree, path)]
        ELSE tree[path]]

RECURSIVE Descendants(_, _)
\* The nodes updateChildrenRecursive(node) visits.
Descendants(tree, path) ==
    LET kids == {tree[path].Children[i] : i \in 1..Len(tree[path].Children)}
    IN  IF ~tree[path].IsDir THEN {}
        ELSE kids \cup UNION {Descendants(tree, k) : k \in kids}

(***************************************************************************)
(* The program.  main loads the rule file, creates the root node and       *)
(* starts the first scan; Update then handles messages one at a time.      *)
(* Update has a value receiver: every scan goroutine keeps the Model value *)
(* it was started from (its ctx, root and filterMap reference), while the  *)
(* program goes on with the values Update returns.                         *)
(***************************************************************************)
MaxRefresh == 1

MaxEdits == 1

\* The rule files the program is started on.
RuleFiles ==
    { <<>>,
      << <<"-", " ", "*">> >>,
      << <<"+", " ", "a", "/", "*", "*">>, <<"-", " ", "*">> >>,
      << <<"-", " ", "*">>, <<"+", " ", "a", "/", "*", "*">> >>,
      << <<"+", " ", "a", "/", "*", "*">> >> }

\* The default of the flag "checkers".
DefaultCheckers == 4

\* The goroutine started for tree g from a Model holding map reference ref,
\* checkers k and sort mode mode.  workers maps every directory of the current level whose
\* worker has not returned to the worker's position.
NewScan(g, ref, k, mode) ==
    [pc |-> "loop", queue |-> {RootPath}, workers |-> <<>>, checkers |-> k,
     ctx |-> g, root |-> g, filterMap |-> ref, sortMode |-> mode]

Init ==
    /\ fs = SmallTree
    /\ disk \in RuleFiles
    /\ LET loaded == loadFilterFile(disk)
       IN  /\ filterRules = loaded.filterRules
           /\ heap = <<loaded.filterMap>>
           /\ nodes = (0 :> (RootPath :>
                  RootNode(getEffectiveFilter(getFilterPath(RootPath), loaded.filterRules))))
    /\ filterMap = 1
    /\ root = 0
    /\ loading = TRUE
    /\ ctx = 0
    /\ cancelled = {}
    /\ visibleNodes = <<RootPath>>
    /\ cursor = 0
    /\ sortMode = SortByName
    /\ scans = (0 :> NewScan(0, 1, DefaultCheckers, SortByName))
    /\ inbox = <<>>
    /\ edits = 0
    /\ query = NoQuery
    /\ saved = NoSave

(***************************************************************************)
(* buildTreeBreadthFirst, run by the goroutine of scan g.                  *)
(***************************************************************************)
ScanLoop_KeepsQueue(g) ==
    \* As ScanLoop without "queue = nil": the level stays in the queue.
    /\ scans[g].pc = "loop"
    /\ IF scans[g].queue # {} /\ scans[g].ctx \notin cancelled
       THEN scans' = [scans EXCEPT ![g].pc = "level",
                                   ![g].workers = [d \in scans[g].queue |-> "acquire"]]
       ELSE scans' = [scans EXCEPT ![g].pc = "send"]
    /\ UNCHANGED <<fs, sortMode, disk, filterRules, filterMap, heap, root, loading, ctx,
                   cancelled, nodes, visibleNodes, cursor, inbox, edits, query, saved>>

\* The loop condition, len(queue) > 0 && m.ctx.Err() == nil, and the start
\* of one worker for every directory of the level.
ScanLoop(g) ==
    /\ scans[g].pc = "loop"
    /\ IF scans[g].queue # {} /\ scans[g].ctx \notin cancelled
       THEN scans' = [scans EXCEPT ![g].pc = "level",
                                   ![g].workers = [d \in scans[g].queue |-> "acquire"],
                                   ![g].queue = {}]
       ELSE scans' = [scans EXCEPT ![g].pc = "send"]
    /\ UNCHANGED <<fs, sortMode, disk, filterRules, filterMap, heap, root, loading, ctx,
                   cancelled, nodes, visibleNodes, cursor, inbox, edits, query, saved>>

\* The directories of scan g whose worker holds the semaphore.
Holders(g) ==
    {d \in DOMAIN scans[g].workers : scans[g].workers[d] \in {"select", "list"}}

\* The worker's return: nextLevelChan <- children, the release of the
\* semaphore and wg.Done().
WorkerReturns(sc, dir, childDirectories) ==
    [sc EXCEPT !.workers = [d \in DOMAIN @ \ {dir} |-> @[d]],
               !.queue = @ \cup childDirectories]

ScanAcquire_Unbounded(g, dir) ==
    \* As ScanAcquire with a semaphore that never blocks.
    /\ scans[g].pc = "level"
    /\ dir \in DOMAIN scans[g].workers
    /\ scans[g].workers[dir] = "acquire"
    /\ scans' = [scans EXCEPT ![g].workers[dir] = "select"]
    /\ UNCHANGED <<fs, sortMode, disk, filterRules, filterMap, heap, root, loading, ctx,
                   cancelled, nodes, visibleNodes, cursor, inbox, edits, query, saved>>

\* semaphore <- struct{}{}
ScanAcquire(g, dir) ==
    /\ scans[g].pc = "level"
    /\ dir \in DOMAIN scans[g].workers
    /\ scans[g].workers[dir] = "acquire"
    /\ Cardinality(Holders(g)) < scans[g].checkers
    /\ scans' = [scans EXCEPT ![g].workers[dir] = "select"]
    /\ UNCHANGED <<fs, sortMode, disk, filterRules, filterMap, heap, root, loading, ctx,
                   cancelled, nodes, visibleNodes, cursor, inbox, edits, query, saved>>

ScanSelect_NoCheck(g, dir) ==
    \* As ScanSelect without the select on m.ctx.Done().
    /\ scans[g].pc = "level"
    /\ dir \in DOMAIN scans[g].workers
    /\ scans[g].workers[dir] = "select"
    /\ scans' = [scans EXCEPT ![g].workers[dir] = "list"]
    /\ UNCHANGED <<fs, sortMode, disk, filterRules, filterMap, heap, root, loading, ctx,
                   cancelled, nodes, visibleNodes, cursor, inbox, edits, query, saved>>

\* The select at the head of scanSingleDirectory: return nil when the
\* context is done.
ScanSelect(g, dir) ==
    /\ scans[g].pc = "level"
    /\ dir \in DOMAIN scans[g].workers
    /\ scans[g].workers[dir] = "select"
    /\ IF scans[g].ctx \in cancelled
       THEN scans' = [scans EXCEPT ![g] = WorkerReturns(@, dir, {})]
       ELSE scans' = [scans EXCEPT ![g].workers[dir] = "list"]
    /\ UNCHANGED <<fs, sortMode, disk, filterRules, filterMap, heap, root, loading, ctx,
                   cancelled, nodes, visibleNodes, cursor, inbox, edits, query, saved>>

ListingFailed_StaysLoading(tree, dir) ==
    \* As ListingFailed without the assignment.
    tree

\* The branch "if err != nil" of scanSingleDirectory: node.Loading = false.
ListingFailed(tree, dir) == [tree EXCEPT ![dir].Loading = FALSE]

RECURSIVE ChildFilters(_, _, _, _, _)
\* The states "child.Filter = m.getEffectiveFilterWithMap(childFilterPath)"
\* may give to the entries from index i on: one sequence of states for
\* every outcome of the calls.
ChildFilters(dir, entries, i, rules, fmap) ==
    IF i > Len(entries) THEN {<<>>}
    ELSE LET first == Resolutions(getFilterPath(Join(dir, entries[i].Name)), rules, fmap)
             rest == ChildFilters(dir, entries, i + 1, rules, fmap)
         IN  {<<x>> \o r : x \in first, r \in rest}

scanSingleDirectory_PartialList(tree, dir, entries, rules, fmap, mode) ==
    \* As scanSingleDirectory, with node.Loading cleared while the last child is
    \* still to be stored.
    UNION {
        LET children == [i \in 1..Len(entries) |->
                            FileNode(Join(dir, entries[i].Name), entries[i], filter[i], FALSE)]
            childDirectories == {children[i].Path : i \in
                                    {k \in 1..Len(children) : children[k].IsDir}}
            added == [i \in {children[k].Path : k \in 1..Len(children)} |->
                         (CHOOSE c \in {children[k] : k \in 1..Len(children)} : c.Path = i)]
            totalSize == SumSeq([i \in 1..Len(children) |->
                             IF children[i].IsDir THEN children[i].TotalSize
                             ELSE children[i].Size])
            totalFiles == SumSeq([i \in 1..Len(children) |->
                              IF children[i].IsDir THEN children[i].TotalFiles ELSE 1])
        IN  {[tree |-> added @@ [tree EXCEPT
                          ![dir].Children = [i \in 1..(Len(sorted) - 1) |-> sorted[i].Path],
                          ![dir].Loading = FALSE,
                          ![dir].TotalSize = totalSize,
                          ![dir].TotalFiles = totalFiles],
              childDirectories |-> childDirectories] :
                 sorted \in sortChildren(children, mode)} :
        filter \in ChildFilters(dir, entries, 1, rules, fmap)}

\* scanSingleDirectory from the loop over the entries on: every outcome, as
\* the tree it leaves and the child directories it returns.
scanSingleDirectory(tree, dir, entries, rules, fmap, mode) ==
    UNION {
        LET children == [i \in 1..Len(entries) |->
                            FileNode(Join(dir, entries[i].Name), entries[i], filter[i], FALSE)]
            childDirectories == {children[i].Path : i \in
                                    {k \in 1..Len(children) : children[k].IsDir}}
            added == [i \in {children[k].Path : k \in 1..Len(children)} |->
                         (CHOOSE c \in {children[k] : k \in 1..Len(children)} : c.Path = i)]
            totalSize == SumSeq([i \in 1..Len(children) |->
                             IF children[i].IsDir THEN children[i].TotalSize
                             ELSE children[i].Size])
            totalFiles == SumSeq([i \in 1..Len(children) |->
                              IF children[i].IsDir THEN children[i].TotalFiles ELSE 1])
        IN  {[tree |-> added @@ [tree EXCEPT
                          ![dir].Children = [i \in 1..Len(sorted) |-> sorted[i].Path],
                          ![dir].Loading = FALSE,
                          ![dir].TotalSize = totalSize,
                          ![dir].TotalFiles = totalFiles],
              childDirectories |-> childDirectories] :
                 sorted \in sortChildren(children, mode)} :
        filter \in ChildFilters(dir, entries, 1, rules, fmap)}

\* One worker listing its directory: os.ReadDir, the rest of
\* scanSingleDirectory and the worker's return.
ScanDir(g, dir) ==
    /\ scans[g].pc = "level"
    /\ dir \in DOMAIN scans[g].workers
    /\ scans[g].workers[dir] = "list"
    /\ IF ReadDir(dir).err
       THEN /\ nodes' = [nodes EXCEPT ![g] = ListingFailed(@, dir)]
            /\ scans' = [scans EXCEPT ![g] = WorkerReturns(@, dir, {})]
       ELSE \E r \in scanSingleDirectory(nodes[g], dir, ReadDir(dir).entries, filterRules,
                                          heap[scans[g].filterMap], scans[g].sortMode) :
               /\ nodes' = [nodes EXCEPT ![g] = r.tree]
               /\ scans' = [scans EXCEPT ![g] = WorkerReturns(@, dir, r.childDirectories)]
    /\ UNCHANGED <<fs, sortMode, disk, filterRules, filterMap, heap, root, loading, ctx,
                   cancelled, visibleNodes, cursor, inbox, edits, query, saved>>

ScanBarrier_NoWait(g) ==
    \* As ScanBarrier without wg.Wait(): the range ends while workers run.
    /\ scans[g].pc = "level"
    /\ scans' = [scans EXCEPT ![g].pc = "loop"]
    /\ UNCHANGED <<fs, sortMode, disk, filterRules, filterMap, heap, root, loading, ctx,
                   cancelled, nodes, visibleNodes, cursor, inbox, edits, query, saved>>

\* wg.Wait(), close(nextLevelChan) and the end of the range over it.
ScanBarrier(g) ==
    /\ scans[g].pc = "level"
    /\ DOMAIN scans[g].workers = {}
    /\ scans' = [scans EXCEPT ![g].pc = "loop"]
    /\ UNCHANGED <<fs, sortMode, disk, filterRules, filterMap, heap, root, loading, ctx,
                   cancelled, nodes, visibleNodes, cursor, inbox, edits, query, saved>>

ScanSend_NilProgram(g) ==
    \* As ScanSend in a Model whose program is nil: nothing is sent.
    /\ scans[g].pc = "send"
    /\ scans' = [scans EXCEPT ![g].pc = "end"]
    /\ UNCHANGED <<fs, sortMode, disk, filterRules, filterMap, heap, root, loading, ctx,
                   cancelled, nodes, visibleNodes, cursor, inbox, edits, query, saved>>

\* m.program.Send(treeReadyMsg{root: m.root}) with the goroutine's Model.
ScanSend(g) ==
    /\ scans[g].pc = "send"
    /\ scans' = [scans EXCEPT ![g].pc = "end"]
    /\ inbox' = Append(inbox, [type |-> "treeReady", root |-> scans[g].root])
    /\ UNCHANGED <<fs, sortMode, disk, filterRules, filterMap, heap, root, loading, ctx,
                   cancelled, nodes, visibleNodes, cursor, edits, query, saved>>

(***************************************************************************)
(* Update: the messages.                                                   *)
(***************************************************************************)
Remove(q, i) == SubSeq(q, 1, i - 1) \o SubSeq(q, i + 1, Len(q))

\* case treeReadyMsg
UpdateTreeReady(i) ==
    /\ inbox[i].type = "treeReady"
    /\ inbox' = Remove(inbox, i)
    /\ loading' = FALSE
    /\ root' = inbox[i].root
    /\ nodes' = [nodes EXCEPT ![inbox[i].root] = calculateStats(@)]
    /\ visibleNodes' = updateVisibleNodes(nodes'[inbox[i].root])
    /\ UNCHANGED <<fs, sortMode, disk, filterRules, filterMap, heap, ctx, cancelled, cursor,
                   scans, edits, query, saved>>

\* case refreshDirMsg: m.refreshDirectory()
UpdateRefreshDir(i) ==
    /\ inbox[i].type = "refreshDir"
    /\ inbox' = Remove(inbox, i)
    /\ cancelled' = cancelled \cup {ctx}
    /\ ctx' = ctx + 1
    /\ loading' = TRUE
    /\ root' = ctx + 1
    /\ \E filter \in Resolutions(getFilterPath(RootPath), filterRules, FM) :
           nodes' = nodes @@ ((ctx + 1) :> (RootPath :> RootNode(filter)))
    /\ visibleNodes' = updateVisibleNodes(nodes'[ctx + 1])
    /\ scans' = scans @@ ((ctx + 1) :> NewScan(ctx + 1, filterMap, scans[ctx].checkers,
                                                sortMode))
    /\ UNCHANGED <<fs, sortMode, disk, filterRules, filterMap, heap, cursor, edits, query, saved>>

(***************************************************************************)
(* Update: the keys.                                                       *)
(***************************************************************************)
\* "f5", "ctrl+r": the returned command delivers a refreshDirMsg.
KeyRefresh ==
    /\ ctx + Cardinality({i \in 1..Len(inbox) : inbox[i].type = "refreshDir"}) < MaxRefresh
    /\ inbox' = Append(inbox, [type |-> "refreshDir", root |-> 0])
    /\ UNCHANGED <<fs, sortMode, disk, filterRules, filterMap, heap, root, loading, ctx,
                   cancelled, nodes, visibleNodes, cursor, scans, edits, query, saved>>

RECURSIVE resortTree(_, _, _)
RECURSIVE resortEach(_, _, _, _)
\* The loop "for _, child := range node.Children" of resortTree, from the
\* child at index i on, over every tree the calls before it may have left.
resortEach(trees, children, i, mode) ==
    IF i > Len(children) THEN trees
    ELSE resortEach(UNION {resortTree(t, children[i], mode) : t \in trees},
                    children, i + 1, mode)

\* The trees resortTree(node) may leave for the node at path.
resortTree(tree, path, mode) ==
    IF tree[path].IsDir /\ Len(tree[path].Children) > 0
    THEN UNION {
             LET children == [i \in 1..Len(sorted) |-> sorted[i].Path]
             IN  resortEach({[tree EXCEPT ![path].Children = children]}, children, 1, mode) :
             sorted \in sortChildren([i \in 1..Len(tree[path].Children) |->
                                        tree[tree[path].Children[i]]], mode)}
    ELSE {tree}

\* "1", "2", "3", "4": m.sortMode is set, the tree m.root is sorted again
\* and the visible nodes are built again.
KeySort(mode) ==
    /\ sortMode' = mode
    /\ \E sorted \in resortTree(nodes[root], RootPath, mode) :
           /\ nodes' = [nodes EXCEPT ![root] = sorted]
           /\ visibleNodes' = updateVisibleNodes(sorted)
    /\ UNCHANGED <<fs, disk, filterRules, filterMap, heap, root, loading, ctx, cancelled,
                   cursor, scans, inbox, edits, query, saved>>

\* The map key the space key builds for a node.
ToggleKey(node) ==
    LET filterPath == getFilterPath(node.Path)
    IN  TrimPrefix(IF node.IsDir
                   THEN TrimSuffix(filterPath, Slash) \o SlashStarStar
                   ELSE filterPath,
                   Slash)

ToggleMap_KeepsUnset(fmap, filterPath, newFilter) ==
    \* As ToggleMap without the delete.
    MapSet(fmap, filterPath, newFilter)

\* "m.filterMap[filterPath] = node.Filter" and the delete that follows when
\* the state is FilterNone.
ToggleMap(fmap, filterPath, newFilter) ==
    IF newFilter = FilterNone
    THEN MapDelete(MapSet(fmap, filterPath, newFilter), filterPath)
    ELSE MapSet(fmap, filterPath, newFilter)

\* " ": toggle the node under the cursor.
KeyToggle ==
    /\ edits < MaxEdits
    /\ cursor < Len(visibleNodes)
    /\ LET path == visibleNodes[cursor + 1]
           node == nodes[root][path]
           newFilter == (node.Filter + 1) % 3
           fmap == ToggleMap(FM, ToggleKey(node), newFilter)
           tree == [nodes[root] EXCEPT ![path].Filter = newFilter]
           below == IF node.IsDir THEN Descendants(tree, path) ELSE {}
           resolved == [d \in below |-> Resolutions(getFilterPath(d), filterRules, fmap)]
       IN  /\ heap' = [heap EXCEPT ![filterMap] = fmap]
           /\ \E filter \in [below -> FilterState] :
                 /\ \A d \in below : filter[d] \in resolved[d]
                 /\ nodes' = [nodes EXCEPT ![root] =
                        [p \in DOMAIN tree |->
                            IF p \in below THEN [tree[p] EXCEPT !.Filter = filter[p]]
                            ELSE tree[p]]]
    /\ edits' = edits + 1
    /\ UNCHANGED <<fs, sortMode, disk, filterRules, filterMap, root, loading, ctx, cancelled,
                   visibleNodes, cursor, scans, inbox, query, saved>>

\* The map key invertSelection builds for a node.
InvertKey(node) ==
    LET filterPath == getFilterPath(node.Path)
    IN  IF node.IsDir THEN TrimSuffix(filterPath, Slash) \o SlashStarStar ELSE filterPath

Flip_ExcludeOnly(filter) ==
    \* As Flip, turning Include into Exclude only.
    IF filter = FilterInclude THEN FilterExclude ELSE filter

\* The switch of invertSelection.
Flip(filter) ==
    IF filter = FilterInclude THEN FilterExclude
    ELSE IF filter = FilterExclude THEN FilterInclude
    ELSE filter

RECURSIVE invertSelection(_, _, _, _)
\* The loop over visibleNodes from index i on: the tree and the map it leaves.
invertSelection(visible, i, tree, fmap) ==
    IF i > Len(visible) THEN [tree |-> tree, fmap |-> fmap]
    ELSE LET node == tree[visible[i]]
         IN  IF node.Filter = FilterNone
             THEN invertSelection(visible, i + 1, tree, fmap)
             ELSE invertSelection(visible, i + 1,
                      [tree EXCEPT ![visible[i]].Filter = Flip(node.Filter)],
                      MapSet(fmap, InvertKey(node), Flip(node.Filter)))

\* "i"
KeyInvert ==
    /\ edits < MaxEdits
    /\ LET after == invertSelection(visibleNodes, 1, nodes[root], FM)
       IN  /\ nodes' = [nodes EXCEPT ![root] = after.tree]
           /\ heap' = [heap EXCEPT ![filterMap] = after.fmap]
    /\ edits' = edits + 1
    /\ UNCHANGED <<fs, sortMode, disk, filterRules, filterMap, root, loading, ctx, cancelled,
                   visibleNodes, cursor, scans, inbox, query, saved>>

resetNodes_KeepsExcluded(tree, visible) ==
    \* As resetNodes, leaving the excluded nodes as they are.
    [p \in DOMAIN tree |->
        IF /\ \E i \in 1..Len(visible) : visible[i] = p
           /\ tree[p].Filter # FilterExclude
        THEN [tree[p] EXCEPT !.Filter = FilterNone]
        ELSE tree[p]]

\* The loop of resetFilters over the visible nodes.
resetNodes(tree, visible) ==
    [p \in DOMAIN tree |->
        IF \E i \in 1..Len(visible) : visible[i] = p
        THEN [tree[p] EXCEPT !.Filter = FilterNone]
        ELSE tree[p]]

\* "r": resetFilters
KeyReset ==
    /\ edits < MaxEdits
    /\ nodes' = [nodes EXCEPT ![root] = resetNodes(@, visibleNodes)]
    /\ heap' = Append(heap, EmptyMap)
    /\ filterMap' = Len(heap) + 1
    /\ edits' = edits + 1
    /\ UNCHANGED <<fs, sortMode, disk, filterRules, root, loading, ctx, cancelled,
                   visibleNodes, cursor, scans, inbox, query, saved>>

\* "down", "j"
KeyDown ==
    /\ cursor < Len(visibleNodes) - 1
    /\ cursor' = cursor + 1
    /\ UNCHANGED <<fs, sortMode, disk, filterRules, filterMap, heap, root, loading, ctx,
                   cancelled, nodes, visibleNodes, scans, inbox, edits, query, saved>>

\* "right", "enter": expand the directory under the cursor.
KeyRight ==
    /\ cursor < Len(visibleNodes)
    /\ LET path == visibleNodes[cursor + 1]
       IN  /\ nodes[root][path].IsDir /\ ~nodes[root][path].Expanded
           /\ nodes' = [nodes EXCEPT ![root][path].Expanded = TRUE]
    /\ visibleNodes' = updateVisibleNodes(nodes'[root])
    /\ UNCHANGED <<fs, sortMode, disk, filterRules, filterMap, heap, root, loading, ctx,
                   cancelled, cursor, scans, inbox, edits, query, saved>>

\* "s": saveFilterFile(m.filterFile, m.filterRules, m.filterMap); the result
\* is dropped and the Model returned unchanged.
KeySave ==
    /\ \E order \in Orders(NewRules(filterRules, FM)) :
           disk' = saveFilterFile(filterRules, FM, order)
    /\ UNCHANGED <<fs, sortMode, filterRules, filterMap, heap, root, loading, ctx, cancelled,
                   nodes,
                   visibleNodes, cursor, scans, inbox, edits, query, saved>>

Next ==
    \/ \E g \in DOMAIN scans : ScanLoop(g)
    \/ \E g \in DOMAIN scans : \E dir \in DOMAIN scans[g].workers : ScanAcquire(g, dir)
    \/ \E g \in DOMAIN scans : \E dir \in DOMAIN scans[g].workers : ScanSelect(g, dir)
    \/ \E g \in DOMAIN scans : \E dir \in DOMAIN scans[g].workers : ScanDir(g, dir)
    \/ \E g \in DOMAIN scans : ScanBarrier(g)
    \/ \E g \in DOMAIN scans : ScanSend(g)
    \/ \E i \in DOMAIN inbox : UpdateTreeReady(i)
    \/ \E i \in DOMAIN inbox : UpdateRefreshDir(i)
    \/ KeyRefresh
    \/ KeyToggle
    \/ KeyInvert
    \/ KeyReset
    \/ KeyDown
    \/ KeyRight
    \/ KeySave

Spec == Init /\ [][Next]_vars

RECURSIVE Traverse(_, _, _, _, _)
\* The trees a traversal that lists one directory after the other can leave,
\* from tree with the directories of queue still to list.
Traverse(tree, queue, rules, fmap, mode) ==
    IF queue = {} THEN {tree}
    ELSE LET dir == CHOOSE d \in queue : TRUE
         IN  IF ReadDir(dir).err
             THEN Traverse(ListingFailed(tree, dir), queue \ {dir}, rules, fmap, mode)
             ELSE UNION {Traverse(r.tree, (queue \ {dir}) \cup r.childDirectories,
                                  rules, fmap, mode) :
                            r \in scanSingleDirectory(tree, dir, ReadDir(dir).entries,
                                                      rules, fmap, mode)}

(***************************************************************************)
(* The editor on a scanned tree: the program after its first scan has      *)
(* ended and its treeReadyMsg is handled, left to move and to edit.        *)
(***************************************************************************)
InitEdit ==
    /\ fs = SmallTree
    /\ disk \in RuleFiles
    /\ LET loaded == loadFilterFile(disk)
           first == (RootPath :>
               RootNode(getEffectiveFilter(getFilterPath(RootPath), loaded.filterRules)))
       IN  /\ filterRules = loaded.filterRules
           /\ heap = <<loaded.filterMap>>
           /\ \E tree \in Traverse(first, {RootPath}, loaded.filterRules,
                                    loaded.filterMap, SortByName) :
                  nodes = (0 :> calculateStats(tree))
    /\ filterMap = 1
    /\ root = 0
    /\ loading = FALSE
    /\ ctx = 0
    /\ cancelled = {}
    /\ visibleNodes = updateVisibleNodes(nodes[0])
    /\ cursor = 0
    /\ sortMode = SortByName
    /\ scans = (0 :> [NewScan(0, 1, DefaultCheckers, SortByName) EXCEPT !.pc = "end", !.queue = {}])
    /\ inbox = <<>>
    /\ edits = 0
    /\ query = NoQuery
    /\ saved = NoSave

NextEdit ==
    \/ KeyToggle
    \/ KeyInvert
    \/ KeyReset
    \/ KeyDown
    \/ KeyRight

SpecEdit == InitEdit /\ [][NextEdit]_vars

(***************************************************************************)
(* The scanner on a wider tree: the program started with any value of the  *)
(* flag "checkers", left to scan and to refresh, with no edit.             *)
(***************************************************************************)
MaxCheckers == 1

PathBK == <<"/", "r", "/", "b", "/", "k">>

PathACK == <<"/", "r", "/", "a", "/", "c", "/", "k">>

\* A root with the directories a and b and a file k; a holds a directory c
\* and a file k; b and c hold a file k each.
WideTree ==
    (RootPath :> Listing(FALSE, <<DirEntry(<<"a">>, TRUE, 0, 1),
                                  DirEntry(<<"b">>, TRUE, 0, 2),
                                  DirEntry(<<"k">>, FALSE, 2, 3)>>))
    @@ (PathA :> Listing(FALSE, <<DirEntry(<<"c">>, TRUE, 0, 4),
                                  DirEntry(<<"k">>, FALSE, 3, 5)>>))
    @@ (PathB :> Listing(FALSE, <<DirEntry(<<"k">>, FALSE, 5, 6)>>))
    @@ (PathAC :> Listing(FALSE, <<DirEntry(<<"k">>, FALSE, 7, 7)>>))

\* The same tree with a directory b that cannot be read.
WideTreeDenied == (PathB :> Listing(TRUE, <<>>)) @@ WideTree

ScanTrees == {WideTree, WideTreeDenied}

\* The rule files the scanner is started on: none, and one with two
\* patterns of the same length that both match /a/c/k.
ScanRuleFiles ==
    { <<>>,
      << <<"-", " ", "a", "/", "c", "/", "k">>, <<"+", " ", "a", "/", "c", "/", "?">> >> }

\* The inputs of the scanner: each tree with no rule file, and the readable
\* tree with each rule file.
ScanInputs ==
    {[fs |-> tree, disk |-> <<>>] : tree \in ScanTrees}
    \cup {[fs |-> WideTree, disk |-> lines] : lines \in ScanRuleFiles}

\* main: "if checkers < 1 { checkers = 4 }"
Checkers(flag) == IF flag < 1 THEN DefaultCheckers ELSE flag

InitScan ==
    /\ \E input \in ScanInputs : fs = input.fs /\ disk = input.disk
    /\ LET loaded == loadFilterFile(disk)
       IN  /\ filterRules = loaded.filterRules
           /\ heap = <<loaded.filterMap>>
           /\ nodes = (0 :> (RootPath :>
                  RootNode(getEffectiveFilter(getFilterPath(RootPath), loaded.filterRules))))
    /\ filterMap = 1
    /\ root = 0
    /\ loading = TRUE
    /\ ctx = 0
    /\ cancelled = {}
    /\ visibleNodes = <<RootPath>>
    /\ cursor = 0
    /\ sortMode = SortByName
    /\ \E flag \in 0..MaxCheckers : scans = (0 :> NewScan(0, 1, Checkers(flag), SortByName))
    /\ inbox = <<>>
    /\ edits = 0
    /\ query = NoQuery
    /\ saved = NoSave

\* The steps of the goroutines of scan g.
ScanStep(g) ==
    /\ g \in DOMAIN scans
    /\ \/ ScanLoop(g)
       \/ \E dir \in DOMAIN scans[g].workers : ScanAcquire(g, dir)
       \/ \E dir \in DOMAIN scans[g].workers : ScanSelect(g, dir)
       \/ \E dir \in DOMAIN scans[g].workers : ScanDir(g, dir)
       \/ ScanBarrier(g)
       \/ ScanSend(g)

NextScan ==
    \/ \E g \in DOMAIN scans : ScanStep(g)
    \/ \E i \in DOMAIN inbox : UpdateTreeReady(i)
    \/ \E i \in DOMAIN inbox : UpdateRefreshDir(i)
    \/ KeyRefresh

SpecScan == InitScan /\ [][NextScan]_vars

\* The steps of scan g other than a listing.
ScanControl(g) ==
    /\ g \in DOMAIN scans
    /\ \/ ScanLoop(g)
       \/ \E dir \in DOMAIN scans[g].workers : ScanAcquire(g, dir)
       \/ \E dir \in DOMAIN scans[g].workers : ScanSelect(g, dir)
       \/ ScanBarrier(g)
       \/ ScanSend(g)

\* Some worker of scan g is listing: ScanDir is enabled for it.
ListingRuns(g) ==
    /\ g \in DOMAIN scans
    /\ \E d \in DOMAIN scans[g].workers : scans[g].workers[d] = "list"

\* A worker of scan g that was listing returns: a ScanDir step.
ListingReturns(g) ==
    /\ g \in DOMAIN scans
    /\ \E d \in DOMAIN scans[g].workers :
           scans[g].workers[d] = "list" /\ d \notin DOMAIN scans'[g].workers

\* The goroutines are scheduled: a scan that can take a step takes one.  The
\* last conjunct is weak fairness of the ScanDir steps of scan g, written
\* with the condition under which they are enabled.
FairSpecScan ==
    /\ SpecScan
    /\ \A g \in 0..MaxRefresh :
           /\ WF_vars(ScanControl(g))
           /\ []<>(~ListingRuns(g)) \/ []<><<ListingReturns(g)>>_vars

(***************************************************************************)
(* The rule file of the end-to-end example: the program's resolvers on the *)
(* rules loaded from the file, or from the file with some lines left out.  *)
(***************************************************************************)
ExampleLines ==
    << <<"-", " ", "d", "i", "r", "1", "/", "s", "u", "b", "1", "/", "*", "*">>,
       <<"-", " ", "d", "i", "r", "1", "/", "s", "u", "b", "2", "/", "*", "*">>,
       <<"+", " ", "d", "i", "r", "1", "/", "*", "*">>,
       <<"+", " ", "d", "i", "r", "2", "/", "*", "*">>,
       <<"-", " ", "*">> >>

ExampleDir1 == <<"/", "d", "i", "r", "1">>

ExampleSub1 == <<"/", "d", "i", "r", "1", "/", "s", "u", "b", "1">>

ExampleSub2 == <<"/", "d", "i", "r", "1", "/", "s", "u", "b", "2">>

ExampleOther == <<"/", "d", "i", "r", "1", "/", "o", "t", "h", "e", "r">>

ExampleDir2 == <<"/", "d", "i", "r", "2">>

ExampleFile == <<"/", "1", ".", "t", "x", "t">>

\* getFilterPath of the root directory
ExampleRoot == <<"/", ".">>

ExamplePaths ==
    {ExampleDir1, ExampleSub1, ExampleSub2, ExampleOther, ExampleDir2, ExampleFile,
     ExampleRoot}

\* The lines of the file at the indices of keep, in the file's order.
RECURSIVE Pick(_, _, _)
Pick(lines, keep, i) ==
    IF i > Len(lines) THEN <<>>
    ELSE (IF i \in keep THEN <<lines[i]>> ELSE <<>>) \o Pick(lines, keep, i + 1)

InitExample ==
    /\ \E keep \in SUBSET (1..Len(ExampleLines)) : disk = Pick(ExampleLines, keep, 1)
    /\ LET loaded == loadFilterFile(disk)
       IN  /\ filterRules = loaded.filterRules
           /\ heap = <<loaded.filterMap>>
    /\ filterMap = 1
    /\ query = NoQuery
    /\ saved = NoSave
    /\ NoProgram

\* One call of each resolver on a path of the example.
ResolveExample ==
    /\ ~query.asked
    /\ \E path \in ExamplePaths :
         \E withMap \in Resolutions(path, filterRules, FM) :
           query' = [path |-> path, order |-> <<>>, asked |-> TRUE,
                     ordered |-> getEffectiveFilter(path, filterRules),
                     withMap |-> withMap]
    /\ UNCHANGED <<fs, disk, filterRules, filterMap, heap, saved, appVars>>

NextExample == ResolveExample

SpecExample == InitExample /\ [][NextExample]_vars

(***************************************************************************)
(* The matcher on its own: a pattern of a pool, alone and followed by      *)
(* "/**", matched against a path of a pool.                                *)
(***************************************************************************)
MatchPrefixes ==
    { <<"d", "i", "r">>, <<"/", "d", "i", "r">>, <<"d", "*">>, <<"d", "?", "r">>,
      <<"a", ".", "b">>, <<"a", "+", "b">>, <<"(", "a", ")">>, <<"a", " ", "b">> }

MatchPaths ==
    { <<"d", "i", "r">>, <<"d", "i", "r", "/", "x">>, <<"d", "i", "r", "/", "x", "/", "y">>,
      <<"d", "i", "r", "X">>, <<"d", "a", "r">>, <<"d", "a", "r", "/", "x">>,
      <<"/", "d", "i", "r">>, <<"/", "d", "i", "r", "/", "x">>,
      <<"a", ".", "b">>, <<"a", "x", "b">>, <<"a", "+", "b">>, <<"a", "a", "b">>,
      <<"(", "a", ")">>, <<"a">>, <<"a", " ", "b">> }

NoMatchQuery == [pattern |-> <<>>, path |-> <<>>, asked |-> FALSE,
                 matched |-> FALSE, contents |-> FALSE]

InitMatch ==
    /\ \E pattern \in MatchPrefixes, path \in MatchPaths :
           query = [NoMatchQuery EXCEPT !.pattern = pattern, !.path = path]
    /\ disk = <<>>
    /\ filterRules = <<>>
    /\ heap = <<EmptyMap>>
    /\ filterMap = 1
    /\ saved = NoSave
    /\ NoProgram

\* The two calls: the pattern alone, and the pattern followed by "/**".
Match ==
    /\ ~query.asked
    /\ query' = [query EXCEPT
           !.asked = TRUE,
           !.matched = matchesRclonePattern(query.pattern, query.path),
           !.contents = matchesRclonePattern(query.pattern \o SlashStarStar, query.path)]
    /\ UNCHANGED <<fs, disk, filterRules, filterMap, heap, saved, appVars>>

NextMatch == Match

SpecMatch == InitMatch /\ [][NextMatch]_vars

(***************************************************************************)
(* saveFilterFile with the file system failing: os.Create may fail, and a  *)
(* write of the bufio.Writer may fail once some lines have reached the     *)
(* file.  The writer keeps its first error, the calls of Fprintf drop it,  *)
(* and Flush returns it.                                                   *)
(***************************************************************************)
Faults == {"none", "create", "write"}

\* The file after the call: as it was when os.Create fails, the first n
\* lines when a write fails, all the lines otherwise.
FileAfter(old, lines, fault, n) ==
    IF fault = "create" THEN old
    ELSE IF fault = "write" THEN SubSeq(lines, 1, n)
    ELSE lines

SaveError_FlushDropped(fault) ==
    \* As SaveError with "writer.Flush(); return nil" at the end.
    fault = "create"

\* The result of saveFilterFile is not nil: "return err" after os.Create,
\* "return writer.Flush()" at the end.
SaveError(fault) == fault # "none"

NoWrite == [done |-> FALSE, err |-> FALSE, fault |-> "none", failed |-> FALSE,
            filterRules |-> <<>>, fmap |-> EmptyMap, lines |-> <<>>]

\* One call saveFilterFile(filename, filterRules, filterMap) under a fault.
\* saved records the call: the arguments, the lines it set out to write, the
\* fault, the result, and whether a call before it had failed.
SaveFile ==
    /\ \E order \in Orders(NewRules(filterRules, FM)) :
       \E fault \in Faults :
           LET lines == saveFilterFile(filterRules, FM, order)
           IN  \E n \in 0..Len(lines) :
                   /\ fault = "write" => n < Len(lines)
                   /\ fault # "write" => n = 0
                   /\ disk' = FileAfter(disk, lines, fault, n)
                   /\ saved' = [done |-> TRUE, err |-> SaveError(fault), fault |-> fault,
                                failed |-> saved.done /\ (saved.failed \/ saved.err),
                                filterRules |-> filterRules, fmap |-> FM, lines |-> lines]
    /\ UNCHANGED <<fs, filterRules, filterMap, heap, query, appVars>>

\* The original rules of the calls: a directory rule and the catch-all.
WriteRules ==
    {FilterRule(p, st) : p \in {PDir1, PStar}, st \in {FilterInclude, FilterExclude}}

InitWrite ==
    /\ disk = <<>>
    /\ filterRules \in SeqsUpTo(WriteRules, MaxRules)
    /\ heap \in {<<m>> : m \in MapsUpTo({PDir1Sub3, PTemp}, MaxOverlay)}
    /\ filterMap = 1
    /\ query = NoQuery
    /\ saved = NoWrite
    /\ NoProgram

NextWrite == SaveFile

SpecWrite == InitWrite /\ [][NextWrite]_vars

(***************************************************************************)
(* Save and load in turn: a map over a pool of patterns, some with spaces, *)
(* saved with no original rule and loaded again as main loads the file.    *)
(***************************************************************************)
PInnerSpace == <<"a", " ", "b">>

PLeadingSpace == <<" ", "a">>

PTrailingSpace == <<"a", " ">>

RoundPatterns == {PDir1, PTemp, PInnerSpace, PLeadingSpace, PTrailingSpace}

\* main: "filterRules, filterMap := loadFilterFile(filterFile)" on the file
\* a save has written.
Reload ==
    /\ saved.done
    /\ LET loaded == loadFilterFile(disk)
       IN  /\ filterRules' = loaded.filterRules
           /\ heap' = <<loaded.filterMap>>
    /\ UNCHANGED <<fs, disk, filterMap, query, saved, appVars>>

InitRound ==
    /\ disk = <<>>
    /\ filterRules = <<>>
    /\ heap \in {<<m>> : m \in MapsUpTo(RoundPatterns, MaxOverlay)}
    /\ filterMap = 1
    /\ query = NoQuery
    /\ saved = NoSave
    /\ NoProgram

NextRound ==
    \/ Save
    \/ Reload

SpecRound == InitRound /\ [][NextRound]_vars

(***************************************************************************)
(* The loader on its own: a file of any lines of a pool, or no file that   *)
(* can be opened.  query records whether os.Open fails and, once the file  *)
(* was loaded, the result.                                                 *)
(***************************************************************************)
MaxLines == 2

LoadLines ==
    { <<"+", " ", "a">>,
      <<"-", " ", "a">>,
      <<"+", " ", "a", " ", "(", "b", ")">>,
      <<"-", " ", "a", " ">>,
      <<" ", "+", " ", "b">>,
      <<"+", "a">>,
      <<"#", " ", "a">>,
      <<"a">>,
      <<" ">>,
      <<>> }

OpenAndLoad_IgnoresError(missing, lines) ==
    \* As OpenAndLoad without "if err != nil { return }".
    loadFilterFile(lines)

\* loadFilterFile(filename): the empty results when os.Open fails, the
\* results of the loop over the lines otherwise.
OpenAndLoad(missing, lines) ==
    IF missing THEN [filterRules |-> <<>>, filterMap |-> EmptyMap]
    ELSE loadFilterFile(lines)

NoLoad == [missing |-> FALSE, asked |-> FALSE]

InitLoad ==
    /\ disk \in SeqsUpTo(LoadLines, MaxLines)
    /\ filterRules = <<>>
    /\ heap = <<EmptyMap>>
    /\ filterMap = 1
    /\ \E missing \in BOOLEAN : query = [NoLoad EXCEPT !.missing = missing]
    /\ saved = NoSave
    /\ NoProgram

\* main: "filterRules, filterMap := loadFilterFile(filterFile)"
Load ==
    /\ ~query.asked
    /\ LET loaded == OpenAndLoad(query.missing, disk)
       IN  /\ filterRules' = loaded.filterRules
           /\ heap' = <<loaded.filterMap>>
    /\ query' = [query EXCEPT !.asked = TRUE]
    /\ UNCHANGED <<fs, disk, filterMap, saved, appVars>>

NextLoad == Load

SpecLoad == InitLoad /\ [][NextLoad]_vars

(***************************************************************************)
(* The sort modes: the program on a tree whose directories come in another *)
(* order by name than by size, by file count and by modification time,     *)
(* left to scan, to refresh and to change the sort mode.                   *)
(***************************************************************************)
PathBC == <<"/", "r", "/", "b", "/", "c">>

\* A root with the directories a and b and a file k; a holds a file k; b
\* holds the files c and k.  b is the larger, the fuller and the older.
SortTree ==
    (RootPath :> Listing(FALSE, <<DirEntry(<<"a">>, TRUE, 0, 4),
                                  DirEntry(<<"b">>, TRUE, 0, 3),
                                  DirEntry(<<"k">>, FALSE, 2, 5)>>))
    @@ (PathA :> Listing(FALSE, <<DirEntry(<<"k">>, FALSE, 1, 1)>>))
    @@ (PathB :> Listing(FALSE, <<DirEntry(<<"c">>, FALSE, 2, 1),
                                  DirEntry(<<"k">>, FALSE, 3, 2)>>))

SortModes == {SortByName, SortBySize, SortByFileCount, SortByLastModified}

InitSort ==
    /\ fs = SortTree
    /\ disk = <<>>
    /\ filterRules = <<>>
    /\ heap = <<loadFilterFile(disk).filterMap>>
    /\ filterMap = 1
    /\ nodes = (0 :> (RootPath :>
                  RootNode(getEffectiveFilter(getFilterPath(RootPath), filterRules))))
    /\ root = 0
    /\ loading = TRUE
    /\ ctx = 0
    /\ cancelled = {}
    /\ visibleNodes = <<RootPath>>
    /\ cursor = 0
    /\ sortMode = SortByName
    /\ scans = (0 :> NewScan(0, 1, DefaultCheckers, SortByName))
    /\ inbox = <<>>
    /\ edits = 0
    /\ query = NoQuery
    /\ saved = NoSave

NextSort ==
    \/ \E g \in DOMAIN scans : ScanStep(g)
    \/ \E i \in DOMAIN inbox : UpdateTreeReady(i)
    \/ \E i \in DOMAIN inbox : UpdateRefreshDir(i)
    \/ KeyRefresh
    \/ \E mode \in SortModes : KeySort(mode)

SpecSort == InitSort /\ [][NextSort]_vars

(***************************************************************************)
(* Properties of the scanner.                                              *)
(***************************************************************************)
\* Scan g has sent its treeReadyMsg.
TreeReadySent(g) == g \in DOMAIN scans /\ scans[g].pc = "end"

\* The traversal of scan g is over: no worker is left, and the queue is
\* empty or the context cancelled.
Traversed(g) ==
    /\ DOMAIN scans[g].workers = {}
    /\ scans[g].queue = {} \/ scans[g].ctx \in cancelled

\* This step hands the program a treeReadyMsg for tree g.
Emits(g) == inbox' = Append(inbox, [type |-> "treeReady", root |-> g])

\* C11: every started scan emits its tree-ready message exactly once: a
\* step emits it only when it was not emitted before, no worker of the scan
\* is left and the queue is empty or the scan cancelled; and every scan
\* comes to emit it.
C11_TreeReadyOnce ==
    /\ [][\A g \in DOMAIN scans :
             /\ Emits(g) => ~TreeReadySent(g) /\ Traversed(g) /\ TreeReadySent(g)'
             /\ TreeReadySent(g) => TreeReadySent(g)']_vars
    /\ \A g \in 0..MaxRefresh : [](g \in DOMAIN scans => <>TreeReadySent(g))

C11_Witness ==
    /\ 1 \in DOMAIN scans
    /\ 0 \in cancelled
    /\ TreeReadySent(0)
    /\ TreeReadySent(1)
    /\ PathA \in DOMAIN nodes[0] /\ nodes[0][PathA].Loading
    /\ PathAC \in DOMAIN nodes[1] /\ ~nodes[1][PathAC].Loading

\* C12: once the context of a scan is cancelled, its coordinator starts no
\* further level and no worker of it starts a listing; a worker that was
\* listing may finish.
C12_CancelStopsScheduling ==
    [][\A g \in DOMAIN scans :
          scans[g].ctx \in cancelled =>
              /\ scans'[g].pc = "level" => scans[g].pc = "level"
              /\ \A d \in DOMAIN scans'[g].workers :
                     scans'[g].workers[d] = "list"
                         => d \in DOMAIN scans[g].workers /\ scans[g].workers[d] = "list"]_vars

C12_Witness ==
    /\ 0 \in cancelled
    /\ TreeReadySent(0)
    /\ {PathA, PathB, PathAC} \subseteq DOMAIN nodes[0]
    /\ ~nodes[0][PathA].Loading
    /\ nodes[0][PathB].Loading
    /\ nodes[0][PathAC].Loading

\* C13: at every moment at most checkers workers of a scan hold the
\* semaphore, and checkers is at least 1.
C13_AtMostKListings ==
    \A g \in DOMAIN scans :
        /\ scans[g].checkers >= 1
        /\ Cardinality(Holders(g)) <= scans[g].checkers

C13_Witness ==
    \E g \in DOMAIN scans :
        /\ scans[g].checkers = 1
        /\ Cardinality(Holders(g)) = 1
        /\ \E d \in DOMAIN scans[g].workers : scans[g].workers[d] = "acquire"

\* C14: the tree an uncancelled scan has built when its traversal ends is
\* the one tree its input determines (file system, rules, map and sort
\* mode), the tree of a traversal that lists one directory after the other,
\* for every value of checkers and every interleaving of the workers.
C14_ConcurrencyInvariance ==
    \A g \in DOMAIN scans :
        (scans[g].pc = "send" /\ scans[g].ctx \notin cancelled) =>
            Traverse((RootPath :> RootNode(nodes[g][RootPath].Filter)), {RootPath},
                     filterRules, heap[scans[g].filterMap], scans[g].sortMode)
                = {nodes[g]}

\* The files of tree below the directory path.
FilesBelow(tree, path) ==
    {d \in DOMAIN tree : ~tree[d].IsDir /\ HasPrefix(d, path \o Slash)}

RECURSIVE SumSizes(_, _)
\* The sum of the sizes of the nodes S of tree.
SumSizes(tree, S) ==
    IF S = {} THEN 0
    ELSE LET d == CHOOSE x \in S : TRUE
         IN  tree[d].Size + SumSizes(tree, S \ {d})

\* C15: once the program has handled the completion of a scan, with
\* calculateStats, every directory of the tree holds as TotalSize the sum of
\* the sizes of the files below it and as TotalFiles their number.
C15_AggregateTotals ==
    ~loading =>
        \A p \in DOMAIN nodes[root] :
            nodes[root][p].IsDir =>
                /\ nodes[root][p].TotalSize = SumSizes(nodes[root], FilesBelow(nodes[root], p))
                /\ nodes[root][p].TotalFiles = Cardinality(FilesBelow(nodes[root], p))

C15_Witness ==
    /\ ~loading
    /\ fs = WideTree
    /\ PathACK \in DOMAIN nodes[root]
    /\ nodes[root][RootPath].TotalFiles = 4
    /\ nodes[root][RootPath].TotalSize = 17
    /\ nodes[root][PathA].TotalSize = 10

\* The traversal of scan g has ended.
ScanOver(g) == g \in DOMAIN scans /\ scans[g].pc \in {"send", "end"}

\* C16: a worker is started only for a directory never listed before; when
\* an uncancelled scan ends, every directory whose listing failed has no
\* children and is not loading, and every other directory holds the entries
\* of its listing; and every scan ends.
C16_FailedListingIsEmpty ==
    /\ [][\A g \in DOMAIN scans : \A d \in DOMAIN scans'[g].workers :
             d \notin DOMAIN scans[g].workers => nodes[g][d].Loading]_vars
    /\ [](\A g \in DOMAIN scans :
             (ScanOver(g) /\ scans[g].ctx \notin cancelled) =>
                 \A p \in DOMAIN nodes[g] :
                     nodes[g][p].IsDir =>
                         /\ ~nodes[g][p].Loading
                         /\ IF ReadDir(p).err
                            THEN nodes[g][p].Children = <<>>
                            ELSE {nodes[g][p].Children[i] :
                                     i \in 1..Len(nodes[g][p].Children)}
                                 = {Join(p, ReadDir(p).entries[i].Name) :
                                     i \in 1..Len(ReadDir(p).entries)})
    /\ \A g \in 0..MaxRefresh : [](g \in DOMAIN scans => <>ScanOver(g))

C16_Witness ==
    /\ fs = WideTreeDenied
    /\ ScanOver(0)
    /\ 0 \notin cancelled
    /\ nodes[0][PathB].Children = <<>>
    /\ ~nodes[0][PathB].Loading
    /\ PathACK \in DOMAIN nodes[0]

(***************************************************************************)
(* Properties of the program.                                              *)
(***************************************************************************)
\* C4: before any edit, the state a scan gave to every entry it discovered
\* is the ordered first-match result over the loaded rules for the entry's
\* path.
C4_ScanEqualsOrdered ==
    edits = 0 =>
        \A g \in DOMAIN nodes : \A p \in DOMAIN nodes[g] \ {RootPath} :
            nodes[g][p].Filter = getEffectiveFilter(getFilterPath(p), filterRules)

\* C8: a save writes a file that, loaded again, resolves every path of the
\* tree to the state the resolver gave it just before the save.
C8_SaveReloadRoundTrip ==
    [][disk' # disk =>
          LET loaded == loadFilterFile(disk')
          IN  \A p \in TreePaths :
                  Resolutions(getFilterPath(p), loaded.filterRules, loaded.filterMap)
                      = Resolutions(getFilterPath(p), filterRules, FM)]_vars

\* C10: once a refresh has started, the root is the root the latest refresh
\* created, and loading is true until the latest scan has sent its
\* completion; the completion of a cancelled scan changes neither.
C10_RefreshReplacesTree ==
    ctx >= 1 =>
        /\ root = ctx
        /\ scans[ctx].pc # "end" => loading


(***************************************************************************)
(* Properties of the editor.                                               *)
(***************************************************************************)
\* The node under the cursor.
CursorPath == visibleNodes[cursor + 1]

\* C17: once an edit (toggle, invert, reset) is done, the Filter cached in
\* every node of the tree is a result of the resolver for the node's path
\* with the rules and the map the program holds now.
C17_CachedStateIsResolved ==
    edits > 0 =>
        \A p \in DOMAIN nodes[root] :
            nodes[root][p].Filter \in Resolutions(getFilterPath(p), filterRules, FM)

\* Unset -> Include -> Exclude -> Unset
Cycle(state) ==
    IF state = FilterNone THEN FilterInclude
    ELSE IF state = FilterInclude THEN FilterExclude
    ELSE FilterNone

\* C18: a toggle moves the node's state one step along the cycle and leaves
\* the new state in the map under the node's pattern, or no entry under that
\* pattern when the new state is Unset; the other entries are kept, and the
\* map never holds an entry whose state is Unset.
C18_ToggleCycles ==
    /\ [](\A k \in Keys(FM) : FM[k] # FilterNone)
    /\ [][KeyToggle =>
            LET node == nodes[root][CursorPath]
                key == ToggleKey(node)
                newState == nodes'[root][CursorPath].Filter
            IN  /\ newState = Cycle(node.Filter)
                /\ IF newState = FilterNone
                   THEN key \notin Keys(FM')
                   ELSE key \in Keys(FM') /\ FM'[key] = newState
                /\ Keys(FM') \ {key} = Keys(FM) \ {key}
                /\ \A k \in Keys(FM) \ {key} : FM'[k] = FM[k]]_vars

\* A toggle has run through the whole cycle's last step: the file k, excluded
\* by the loaded rule "*", is Unset and the map has no entry "k".
C18_Witness ==
    /\ edits = 1
    /\ PStar \in Keys(FM)
    /\ PathK \in DOMAIN nodes[root]
    /\ nodes[root][PathK].Filter = FilterNone
    /\ <<"k">> \notin Keys(FM)

\* The nodes below a directory.
Below(tree, path) == {d \in DOMAIN tree : HasPrefix(d, path \o Slash)}

\* C19: when a toggle leaves a directory (the root is one) in state Include
\* or Exclude, every node below it whose path no map key longer than the
\* directory's key accepts has that state cached.
C19_ToggleReachesDescendants ==
    [][KeyToggle =>
         LET node == nodes[root][CursorPath]
             key == ToggleKey(node)
             S == nodes'[root][CursorPath].Filter
         IN  (node.IsDir /\ S # FilterNone) =>
                 \A d \in Below(nodes[root], CursorPath) :
                     (~\E k \in Keys(FM') :
                          Len(k) > Len(key) /\ Accepts(k, getFilterPath(d)))
                     => nodes'[root][d].Filter = S]_vars

\* The path of a node relative to the root directory.
RelPath(path) ==
    IF path = RootPath THEN <<".">> ELSE TrimPrefix(path, RootPath \o Slash)

\* The key the claim names for a node.
RelKey(node) ==
    IF node.IsDir THEN RelPath(node.Path) \o SlashStarStar ELSE RelPath(node.Path)

\* The nodes a toggle sets to Include or Exclude, and the nodes an inversion
\* flips.
Toggled == {p \in {CursorPath} : nodes'[root][p].Filter # FilterNone}

Inverted ==
    {p \in {visibleNodes[i] : i \in 1..Len(visibleNodes)} :
        nodes[root][p].Filter # FilterNone}

\* The step leaves the state of each edited node under its key, and every
\* key it adds is the key of an edited node.
Records(edited) ==
    /\ \A p \in edited :
           /\ RelKey(nodes[root][p]) \in Keys(FM')
           /\ FM'[RelKey(nodes[root][p])] = nodes'[root][p].Filter
    /\ Keys(FM') \ Keys(FM) \subseteq {RelKey(nodes[root][p]) : p \in edited}

\* C20: an edit that sets a node to Include or Exclude records the state
\* under the node's root-relative path, followed by "/**" for a directory and
\* by nothing for a file; the keys the edit adds are these, one per node.
C20_KeyOfEditedNode ==
    [][/\ KeyToggle => Records(Toggled)
       /\ KeyInvert => Records(Inverted)]_vars


\* The visible nodes.
Visible == {visibleNodes[i] : i \in 1..Len(visibleNodes)}

\* Include for Exclude, Exclude for Include.
Opposite(state) ==
    IF state = FilterInclude THEN FilterExclude
    ELSE IF state = FilterExclude THEN FilterInclude
    ELSE FilterNone

\* The path of a node as the program writes it, "/**" added for a directory.
PathKey(node) == Slash \o RelKey(node)

C22_ResetClears ==
    [][KeyReset =>
         /\ \A p \in Visible : nodes'[root][p].Filter = FilterNone
         /\ Keys(FM') = {}]_vars

\* A reset met excluded nodes and a map with an entry.
C22_Witness ==
    /\ edits = 1
    /\ filterMap = 2
    /\ Keys(heap[1]) # {}
    /\ Keys(FM) = {}
    /\ \A p \in Visible : nodes[root][p].Filter = FilterNone
    /\ filterRules # <<>>
    /\ filterRules[1].State = FilterExclude

\* C23: the map is empty while no edit was done, and a step that adds a key
\* to the map is a toggle or an inversion.
C23_OverlayEmptyAtStart ==
    /\ [](edits = 0 => Keys(FM) = {})
    /\ [][~(Keys(FM') \subseteq Keys(FM)) => (KeyToggle \/ KeyInvert)]_vars


\* The states the example expects.
ExampleExpected ==
    (ExampleDir1 :> FilterInclude) @@ (ExampleSub1 :> FilterExclude)
    @@ (ExampleSub2 :> FilterExclude) @@ (ExampleOther :> FilterInclude)
    @@ (ExampleDir2 :> FilterInclude) @@ (ExampleFile :> FilterExclude)
    @@ (ExampleRoot :> FilterExclude)

\* C24: with the five rules of the example loaded in the file's order, both
\* resolvers give dir1, dir1/other and dir2 Include and dir1/sub1, dir1/sub2,
\* 1.txt and the root "/." Exclude.
C24_EndToEndExample ==
    (disk = ExampleLines /\ query.asked) =>
        /\ query.ordered = ExampleExpected[query.path]
        /\ query.withMap = ExampleExpected[query.path]

\* The resolvers were asked about dir1/sub1 with the whole file loaded.
C24_Witness ==
    /\ disk = ExampleLines
    /\ Len(filterRules) = 5
    /\ query.asked
    /\ query.path = ExampleSub1
    /\ query.ordered = FilterExclude


\* The characters the pattern grammar gives a meaning to.
Wildcards == {"*", "?", "[", "{"}

\* A pattern with none of them.
Literal(pattern) == \A i \in 1..Len(pattern) : pattern[i] \notin Wildcards

\* The proper prefixes of a path that end before a "/".
Above(path) == {SubSeq(path, 1, n) : n \in {m \in 1..(Len(path) - 1) : path[m + 1] = "/"}}

\* C25: the pattern P followed by "/**" accepts every path that P alone
\* accepts and every path below such a path; when P has no wildcard it
\* rejects a path that starts with P without being P or P followed by "/".
C25_DirectoryWithContents ==
    query.asked =>
        LET prefix == TrimPrefix(query.pattern, Slash)
            path == TrimPrefix(query.path, Slash)
        IN  /\ query.matched => query.contents
            /\ (\E dir \in Above(query.path) : matchesRclonePattern(query.pattern, dir))
                   => query.contents
            /\ ( /\ Literal(prefix)
                 /\ HasPrefix(path, prefix)
                 /\ path # prefix
                 /\ ~HasPrefix(path, prefix \o Slash) )
                   => ~query.contents

ScanCompleted ==
    /\ ~loading
    /\ root = ctx
    /\ scans[ctx].pc = "end"
    /\ \A i \in DOMAIN inbox : inbox[i].type = "treeReady" => inbox[i].root # ctx

\* The size the size mode orders by: the aggregate for a directory.
SizeKey(node) == IF node.IsDir THEN node.TotalSize ELSE node.Size

\* In the given mode y belongs before x: a directory before a file; in one
\* group the lower name, the larger size, the fuller directory, the newer.
Misplaced(mode, x, y) ==
    IF x.IsDir # y.IsDir THEN y.IsDir
    ELSE CASE mode = SortByName -> StringLess(ToLower(y.Name), ToLower(x.Name))
           [] mode = SortBySize -> SizeKey(y) > SizeKey(x)
           [] mode = SortByFileCount -> x.IsDir /\ y.TotalFiles > x.TotalFiles
           [] mode = SortByLastModified -> y.ModTime > x.ModTime

\* The children of every node of the tree are in the order of the mode.
ChildrenOrdered(tree, mode) ==
    \A p \in DOMAIN tree :
        \A i, j \in 1..Len(tree[p].Children) :
            i < j => ~Misplaced(mode, tree[tree[p].Children[i]], tree[tree[p].Children[j]])

\* C27: once a scan has completed, whatever sort keys and refreshes came
\* before or come after, the children of every node are ordered directories
\* first and, in each group, by the active sort mode.
C27_ChildrenSorted == ScanCompleted => ChildrenOrdered(nodes[root], sortMode)


EntryLine(pattern, state) ==
    (IF state = FilterInclude THEN PlusSpace ELSE MinusSpace) \o pattern

\* C29: a map saved with no original rule and loaded back gives a map with
\* the same entries, and the file holds one line for each entry.
C29_SaveLoadRoundTrip ==
    [][(Reload /\ saved.filterRules = <<>> /\ disk = saved.lines) =>
          /\ FM' = saved.fmap
          /\ Len(disk) = Cardinality(Keys(saved.fmap))
          /\ \A k \in Keys(saved.fmap) :
                 Cardinality({i \in 1..Len(disk) : disk[i] = EntryLine(k, saved.fmap[k])}) = 1]_vars


\* The line begins with "+ " or "- ".
IsRuleLine(line) == HasPrefix(line, PlusSpace) \/ HasPrefix(line, MinusSpace)

\* The rule of a line that begins with "+ " or "- ": the rest of the line
\* as the pattern.
RuleOf(line) ==
    FilterRule(SubSeq(line, 3, Len(line)),
               IF line[1] = "+" THEN FilterInclude ELSE FilterExclude)

\* The rules of the lines that begin with "+ " or "- ", in the order of the
\* lines; every other line is skipped.
Parsed(lines) ==
    LET rules == SelectSeq(lines, IsRuleLine)
    IN  [i \in 1..Len(rules) |-> RuleOf(rules[i])]

\* The line without the whitespace at its two ends.
Trimmed(line) ==
    LET inked == {i \in 1..Len(line) : line[i] \notin Whitespace}
    IN  IF inked = {} THEN <<>>
        ELSE SubSeq(line, CHOOSE i \in inked : \A j \in inked : i <= j,
                          CHOOSE i \in inked : \A j \in inked : j <= i)

MapReader(g, dir) ==
    /\ dir \in DOMAIN scans[g].workers
    /\ scans[g].workers[dir] = "list"
    /\ ~ReadDir(dir).err
    /\ Len(ReadDir(dir).entries) > 0

\* The step is an edit that stores into the map m.filterMap refers to.
MapWrite == (KeyToggle \/ KeyInvert) /\ heap'[filterMap] # heap[filterMap]

\* C31: no edit writes the map while a scan worker that reads the same map
\* is inside its listing.
C31_NoWriteDuringRead ==
    [][MapWrite =>
          ~\E g \in DOMAIN scans : \E dir \in DOMAIN scans[g].workers :
               MapReader(g, dir) /\ scans[g].filterMap = filterMap]_vars


\* C32: in every state, for the lines a save would write there and for
\* every path of the tree, the first-match result over the rules of the
\* written lines is the state the resolver with the map gives for the path.
C32_SavedIsShown ==
    \A order \in Orders(NewRules(filterRules, FM)) :
        \A p \in TreePaths :
            Resolutions(getFilterPath(p), filterRules, FM)
                = {getEffectiveFilter(getFilterPath(p),
                       loadFilterFile(saveFilterFile(filterRules, FM, order)).filterRules)}


\* C33: for every node of a scanned tree, the resolver with the map has one
\* possible result for the node's path under the loaded rules and the map,
\* whatever the order of its range.
C33_ResolutionDeterministic ==
    \A g \in DOMAIN nodes : \A p \in DOMAIN nodes[g] :
        Cardinality(Resolutions(getFilterPath(p), filterRules, FM)) = 1


\* The keys of the map that the space key or invertSelection would use for
\* the node.
NodeKeys(node) == {ToggleKey(node), InvertKey(node)} \cap Keys(FM)

\* C34: the map holds at most one key for every node of the tree.
C34_OneKeyPerNode ==
    \A p \in DOMAIN nodes[root] : Cardinality(NodeKeys(nodes[root][p])) <= 1


\* The child directories of dir in the tree.
ChildDirectories(tree, dir) ==
    {tree[dir].Children[i] : i \in {k \in 1..Len(tree[dir].Children) :
                                        tree[tree[dir].Children[k]].IsDir}}

\* The directories whose worker returns in the step.
Returning(g) == DOMAIN scans[g].workers \ DOMAIN scans'[g].workers

\* C35: the workers of a new level start only when no worker of the level
\* before is left, and they are the workers of the queued directories; while
\* a level runs, the queue grows by the child directories each returning
\* worker has listed and by nothing else, and no queued directory has a
\* worker.
C35_LevelBarrier ==
    /\ [](\A g \in DOMAIN scans : scans[g].queue \cap DOMAIN scans[g].workers = {})
    /\ [][\A g \in DOMAIN scans :
            /\ (DOMAIN scans'[g].workers \ DOMAIN scans[g].workers # {}) =>
                  /\ DOMAIN scans[g].workers = {}
                  /\ DOMAIN scans'[g].workers = scans[g].queue
                  /\ scans'[g].queue = {}
            /\ (scans[g].pc = "level" /\ scans'[g].pc = "level") =>
                  scans'[g].queue = scans[g].queue \cup
                      UNION {ChildDirectories(nodes'[g], d) : d \in Returning(g)}
            /\ (scans[g].pc = "level" /\ scans'[g].pc = "loop") =>
                  scans'[g].queue = scans[g].queue]_vars

\* The directory a/c, found at the second level, is being listed, and the
\* directories a and b of the level before are listed.
C35_Witness ==
    \E g \in DOMAIN scans :
        /\ PathAC \in DOMAIN scans[g].workers
        /\ scans[g].workers[PathAC] = "list"
        /\ ~nodes[g][PathA].Loading
        /\ ~nodes[g][PathB].Loading
        /\ Len(nodes[g][PathB].Children) = 1


\* The directories of the scanned trees.
ScanDirs == {RootPath, PathA, PathB, PathAC}

\* Scan g has a worker for dir that has not returned.
WorkerOf(g, dir) == g \in DOMAIN scans /\ dir \in DOMAIN scans[g].workers

\* Scan g has ended and its treeReadyMsg is with the program, not yet
\* handled.
Completion(g) ==
    /\ g \in DOMAIN scans
    /\ scans[g].pc = "end"
    /\ \E i \in DOMAIN inbox : inbox[i] = [type |-> "treeReady", root |-> g]

\* C36: every started scan, cancelled or not, with one checker or more,
\* comes to emit its treeReadyMsg, and every worker it starts returns: none
\* stays at the semaphore, at the channel or in its listing.
C36_ScanTerminates ==
    \A g \in 0..MaxRefresh :
        /\ []((g \in DOMAIN scans /\ scans[g].pc # "end") => <>Completion(g))
        /\ \A dir \in ScanDirs : [](WorkerOf(g, dir) => <>~WorkerOf(g, dir))

\* With one checker, a cancelled scan and the scan after it have both ended,
\* and the second has listed the deepest directory.
C36_Witness ==
    /\ 1 \in DOMAIN scans
    /\ scans[0].checkers = 1
    /\ 0 \in cancelled
    /\ scans[0].pc = "end" /\ scans[1].pc = "end"
    /\ inbox = <<>>
    /\ PathACK \in DOMAIN nodes[1]


\* The paths os.ReadDir gives for the entries of dir; none when it fails.
Listed(dir) ==
    IF ReadDir(dir).err THEN {}
    ELSE {Join(dir, ReadDir(dir).entries[i].Name) : i \in 1..Len(ReadDir(dir).entries)}

\* The children of dir in the tree are all its entries, each once.
Complete(tree, dir) ==
    /\ {tree[dir].Children[i] : i \in 1..Len(tree[dir].Children)} = Listed(dir)
    /\ Len(tree[dir].Children) = Cardinality(Listed(dir))

Starting(g) == DOMAIN scans'[g].workers \ DOMAIN scans[g].workers

\* C38: in every scan a directory is queued when its node is created and at
\* no other time, gets a worker only from the queue and while it was never
\* listed, and a step of a worker changes no node but the one of the
\* worker's directory, which was not written before: every directory is
\* queued and listed at most once and written by its own worker only.
C38_OneWorkerPerDirectory ==
    [][\A g \in DOMAIN scans :
          /\ \A d \in scans'[g].queue \ scans[g].queue : d \notin DOMAIN nodes[g]
          /\ \A d \in Starting(g) :
                /\ d \in scans[g].queue
                /\ nodes[g][d].Loading /\ nodes[g][d].Children = <<>>
          /\ Returning(g) # {} =>
                /\ Cardinality(Returning(g)) = 1
                /\ \A p \in DOMAIN nodes[g] :
                       nodes'[g][p] # nodes[g][p] =>
                           /\ p \in Returning(g)
                           /\ nodes[g][p].Loading /\ nodes[g][p].Children = <<>>
                /\ \A p \in DOMAIN nodes'[g] \ DOMAIN nodes[g] :
                       \E d \in Returning(g) : p \in Listed(d)]_vars

\* The workers of the directories a and b are listing at the same time.
C38_Witness ==
    \E g \in DOMAIN scans :
        /\ DOMAIN scans[g].workers = {PathA, PathB}
        /\ scans[g].workers[PathA] = "list"
        /\ scans[g].workers[PathB] = "list"


\* C39: in every state the cursor is the index of a visible node.
C39_CursorInRange == 0 <= cursor /\ cursor < Len(visibleNodes)

=============================================================================
